---- MODULE Spec2Model ----
(***************************************************************************)
(* Model of the CPD database gateway (SqliteAdapter, MssqlAdapter, error   *)
(* taxonomy, retry policy), of the background execution bridge (run_bg,    *)
(* _UiInvoker), of the Azure AD token manager and of the schema validator. *)
(*                                                                         *)
(* SpecTx     : one adapter instance driven by one caller thread that      *)
(*              nests transaction() scopes, issues statements, raises and  *)
(*              catches exceptions, while every driver call may fail.      *)
(* SpecRetry  : the remote adapter outside any transaction, with one       *)
(*              driver failure per classification outcome.                 *)
(* SpecBg     : the UI thread, the executor's worker threads and the Qt    *)
(*              event queue of the background bridge.                      *)
(* SpecBgFair : SpecBg with threads that keep running and an event loop    *)
(*              that keeps delivering.                                     *)
(* SpecCb     : the bridge with callbacks that may raise on the UI thread. *)
(* SpecCbFair : SpecCb with the fairness of SpecBgFair.                    *)
(* SpecTok    : one AzureADTokenManager used by the main thread and one    *)
(*              worker thread while the clock advances.                    *)
(* SpecVal    : validate_schema, called twice, over remote catalogs and    *)
(*              gateway faults.                                            *)
(* SpecTypes  : _are_types_compatible and _compare_table_schema over pairs *)
(*              of type strings.                                           *)
(* SpecDeploy : deploy_schema over scripts of statement, comment, blank    *)
(*              and GO lines, with every gateway.execute outcome.          *)
(* SpecApp    : opening a remote project: load_project, the deploy /       *)
(*              use-as-is / cancel choice and the second load.             *)
(* SpecClose  : SpecTx with close() callable at any point.                 *)
(* SpecConn   : _build_conn_str over configurations.                       *)
(* SpecMap    : map_mssql_error over SQLSTATE, code and message phrases.   *)
(* SpecPaths  : the same pyodbc.connect failure run through execute on    *)
(*              the direct and on the token-manager connect path.          *)
(* SpecCtx    : AppContext and SecureCredentialManager: session passwords, *)
(*              load_project, close and the pending schema validation.     *)
(* SpecMig    : MigrationService.run_migrations, one gateway call a step.  *)
(*                                                                         *)
(* Scope: the body of a transaction() scope raises Exception instances,    *)
(* the adapter is used by one thread and, outside SpecClose, is not closed *)
(* while a scope is open; background_runner is imported on the UI thread   *)
(* and no caller cancels the Future run_bg returns; a callback that raises *)
(* does so with an Exception instance; the clock never goes back; pyodbc   *)
(* and the gateway raise Exception instances.                              *)
(***************************************************************************)
EXTENDS Integers, Sequences, FiniteSets, TLC

VARIABLES
    \* ---- adapter (src/services/db_adapters) ----
    backend,     \* "mssql" | "sqlite": which adapter class the instance is
    inited,      \* init() has completed (MssqlAdapter._cfg / SqliteAdapter._conn set)
    auth,        \* class of cfg.auth_type: "sql" (windows/sql) | "azure_ad"
    tx_depth,    \* self._tx_depth
    tx_conn,     \* MssqlAdapter._tx_conn: 0 is None, else the id of the connection
    conn,        \* the transactional connection (mssql) / long-lived connection (sqlite)
    db,          \* statements durably committed in the database
    scopes,      \* stack of active transaction() generator frames of the caller
    exc,         \* exception currently propagating in the caller (NoExc if none)
    last,        \* what the most recent gateway call did (attempts, sleeps, ...)
    nextId,      \* allocator of statement ids, advanced by every write and scope entry
    \* ---- background bridge (src/services/background_runner.py) ----
    item,        \* per work item: state of its Future and of its callbacks
    workq,       \* ThreadPoolExecutor work queue (submitted, not yet started)
    evq,         \* Qt event queue of _invoke_target (queued signal emissions)
    uistack,     \* UI-thread code waiting inside a modal dialog's event loop, innermost last
    uirun,       \* work item whose run_bg call the UI thread is inside (0: none)
    waiting,     \* watched items whose fn has finished and whose callback has not started, in completion order
    \* ---- token manager (src/services/azure_ad_token_manager.py) ----
    _token_cache, \* AzureADTokenManager._token_cache: cache key -> AuthToken
    _lock,       \* thread that holds AzureADTokenManager._lock ("none": free)
    now,         \* datetime.now(), in minutes
    tpc,         \* per thread: the token-manager call it is inside and where
    done,        \* the most recently completed token-manager call and how it ended
    \* ---- schema validator (src/services/schema_validator.py) ----
    catalog,     \* in-scope tables of the remote database: name -> columns, primary key
    fault,       \* the gateway call that failed in the last validation ("none": no failure)
    result,      \* the SchemaValidationResult of the last call (NoResult before the call)
    previous,    \* the SchemaValidationResult of the call before the last
    validations, \* validate_schema calls made
    deploy,      \* deploy_schema: the script, its batches, the calls of gateway.execute
    \* ---- functions applied to drawn inputs ----
    typecheck,   \* _compare_table_schema on one column: the two types and the outcome
    built,       \* _build_conn_str on one configuration: the fields and the outcome
    mapped,      \* map_mssql_error on one error: its features and the class returned
    mig,         \* MigrationService.run_migrations: the stored version, the calls made
    \* ---- application context (src/services/app_context.py) ----
    app,         \* AppContext fields and the stage of the open-project flow
    ctxcall,     \* the last call made on the context or on the credential manager
    \* ---- credential cache (src/services/secure_credential_manager.py) ----
    crypto,      \* the encryption backend _initialize_encryption selected
    _session_credentials, \* project path -> encrypted password
    keyring,     \* the OS keyring's entry ("CPD_Database", "cpd_session_<pid>")
    stored       \* per project path: the last non-empty password stored since the last clear

adapterVars == <<backend, inited, auth, tx_depth, tx_conn, conn, db, scopes, exc, last, nextId>>
bridgeVars  == <<item, workq, evq, uistack, uirun, waiting>>
tokenVars   == <<_token_cache, _lock, now, tpc, done>>
valVars     == <<catalog, fault, result, previous, validations, deploy>>
fnVars      == <<typecheck, built, mapped, mig>>
appVars     == <<app>>
credVars    == <<ctxcall, crypto, _session_credentials, keyring, stored>>
vars        == <<adapterVars, bridgeVars, tokenVars, valVars, fnVars, appVars, credVars>>

\* what the actions of one component leave alone
besideAdapter == <<bridgeVars, tokenVars, valVars, fnVars, appVars, credVars>>
besideBridge  == <<adapterVars, tokenVars, valVars, fnVars, appVars, credVars>>
besideToken   == <<adapterVars, bridgeVars, valVars, fnVars, appVars, credVars>>
besideVal     == <<adapterVars, bridgeVars, tokenVars, fnVars, appVars, credVars>>
besideFn      == <<adapterVars, bridgeVars, tokenVars, valVars, appVars, credVars>>
besideApp     == <<adapterVars, bridgeVars, tokenVars, fnVars, credVars>>
besideCtx     == <<adapterVars, bridgeVars, tokenVars, fnVars>>

----------------------------------------------------------------------------
(* Bounds of the model *)
MaxDepth == 3      \* deepest nesting of transaction() scopes explored
MaxOps   == 4      \* statements executed + scopes entered by the caller in one behaviour
MaxTx    == 1      \* outermost transactions (connections opened for a scope)

----------------------------------------------------------------------------
(* Error taxonomy: src/services/database_gateway.py *)
Taxonomy == {"TransientError", "AuthError", "PermissionError", "NotFoundError",
             "ConflictError", "TimeoutError", "ValidationError",
             "ProgrammingError", "OperationalError"}

\* through: the number of transaction() scopes the exception has left so far
NoExc == [id |-> 0, cls |-> "none", origin |-> "none", through |-> 0]

\* A pyodbc error as the classifier sees it: SQLSTATE, numeric code (0: none)
\* and the set of signal phrases its message text contains.
MssqlFeat(s, c, p) == [sqlstate |-> s, code |-> c, phr |-> p]

_is_transient_mssql_code(code) ==
    /\ code # 0
    /\ (code \in {40501, 40613, 40197} \/ (49918 <= code /\ code <= 49920))

\* plausible slip: the transient codes are tested before the authentication signals
map_mssql_error_transientfirst(f) ==
    IF _is_transient_mssql_code(f.code) THEN "TransientError"
    ELSE IF f.sqlstate = "28000" \/ f.phr \cap {"FA004", "Login failed", "18456"} # {}
    THEN "AuthError"
    ELSE "OperationalError"

map_mssql_error(f) ==
    IF f.sqlstate = "28000" \/ f.phr \cap {"FA004", "Login failed", "18456"} # {}
    THEN "AuthError"
    ELSE IF f.phr \cap {"permission", "is not authorized"} # {}
    THEN "PermissionError"
    ELSE IF f.phr \cap {"Cannot open database", "does not exist"} # {}
    THEN "NotFoundError"
    ELSE IF _is_transient_mssql_code(f.code)
            \/ f.phr \cap {"temporarily unavailable", "service is busy"} # {}
    THEN "TransientError"
    ELSE IF f.phr \cap {"timeout", "timed out"} # {}
    THEN "TimeoutError"
    ELSE "OperationalError"

\* An exception object raised inside an adapter operation: raw driver error
\* (args carry SQLSTATE / code) or a DatabaseError built by the adapter
\* (args is the message only).
_extract_mssql_error_info(e) ==
    IF e.raw THEN e.feat
    ELSE MssqlFeat("none", 0, e.feat.phr)

\* Driver failures explored: one representative per classification outcome.
MssqlDriverErrors ==
    { MssqlFeat("none", 40501, {}),
      MssqlFeat("28000", 0, {"Login failed"}),
      MssqlFeat("none", 0, {"permission"}),
      MssqlFeat("none", 0, {"Cannot open database"}),
      MssqlFeat("none", 0, {"timeout"}),
      MssqlFeat("none", 0, {}) }

\* Failures explored where transactions are nested (one retryable, one not)
MssqlTxErrors == { MssqlFeat("none", 40501, {}), MssqlFeat("none", 0, {}) }

\* sqlite3 exception classes and message patterns
SqliteDriverErrors ==
    { [type |-> "IntegrityError",   msg |-> "other"],
      [type |-> "OperationalError", msg |-> "no such table:"],
      [type |-> "OperationalError", msg |-> "database is locked"],
      [type |-> "OperationalError", msg |-> "other"],
      [type |-> "ProgrammingError", msg |-> "other"],
      [type |-> "DatabaseError",    msg |-> "other"],
      [type |-> "InterfaceError",   msg |-> "other"] }

map_sqlite_exception(e) ==
    IF e.type = "IntegrityError" THEN "ConflictError"
    ELSE IF e.type = "OperationalError"
    THEN IF e.msg = "no such table:" THEN "NotFoundError"
         ELSE IF e.msg = "database is locked" THEN "TransientError"
         ELSE "OperationalError"
    ELSE IF e.type = "ProgrammingError" THEN "ProgrammingError"
    ELSE IF e.type \in {"DatabaseError", "DataError", "InternalError", "NotSupportedError"}
    THEN "OperationalError"
    ELSE "DatabaseError"


----------------------------------------------------------------------------
(* Connections and the statements they hold *)

\* A connection's uncommitted work is a log of statement ids (positive) and
\* savepoint markers (sp_<n> is written -n).
\* hist: the commit / rollback / close calls made on the connection;
\* undone: the statements a rollback has removed from its transaction.
NoConn == [id |-> 0, open |-> FALSE, autocommit |-> FALSE, log |-> <<>>, hist |-> <<>>,
           undone |-> {}]

Stmts(log) == { log[i] : i \in { j \in 1..Len(log) : log[j] > 0 } }

HasSavepoint(log, n) == \E i \in 1..Len(log) : log[i] = -n

LastSavepoint(log, n) ==
    CHOOSE i \in 1..Len(log) : log[i] = -n /\ \A j \in (i+1)..Len(log) : log[j] # -n

\* ROLLBACK TRANSACTION sp_<n> / ROLLBACK TO SAVEPOINT sp_<n>: undo everything
\* after the most recent savepoint of that name; the savepoint stays.
RollbackTo(log, n) == SubSeq(log, 1, LastSavepoint(log, n))

SelectSeq2(s, keep) ==
    LET F[i \in 0..Len(s)] ==
            IF i = 0 THEN <<>>
            ELSE IF keep[i] THEN Append(F[i-1], s[i]) ELSE F[i-1]
    IN F[Len(s)]

\* RELEASE SAVEPOINT sp_<n>: the savepoint and all later savepoints vanish,
\* their statements stay in the enclosing transaction.
ReleaseMarkers(log, n) ==
    LET i == LastSavepoint(log, n)
    IN SelectSeq2(log, [j \in 1..Len(log) |-> j < i \/ log[j] > 0])

HistCount(h, evs) == Cardinality({ i \in 1..Len(h) : h[i] \in evs })

----------------------------------------------------------------------------
(* MssqlAdapter: src/services/db_adapters/mssql_adapter.py *)

DelayInitMs == 500     \* delay = 0.5 (seconds), kept in milliseconds
DefaultAttempts == 3   \* _with_retry(..., attempts: int = 3)

\* Exception object raised inside an operation closure
OpExc(raw, feat, driver) == [raw |-> raw, feat |-> feat, driver |-> driver]

NoOpExc == OpExc(FALSE, MssqlFeat("none", 0, {}), FALSE)

\* _connect(autocommit): outcomes of one call.  connected: pyodbc.connect was
\* called; ok: it returned a connection.
_connect_with_token_manager(errs) ==
    \* get_connection_string raised RuntimeError (no valid cached token)
    { [ok |-> FALSE, connected |-> FALSE, e |-> OpExc(FALSE, MssqlFeat("none", 0, {}), FALSE)] }
    \cup
    \* pyodbc.connect raised: wrapped into DatabaseError("Connection failed: ...")
    { [ok |-> FALSE, connected |-> TRUE, e |-> OpExc(FALSE, f, TRUE)] : f \in errs }
    \cup
    { [ok |-> TRUE, connected |-> TRUE, e |-> NoOpExc] }

_connect(errs) ==
    IF ~inited
    THEN { [ok |-> FALSE, connected |-> FALSE, e |-> OpExc(FALSE, MssqlFeat("none", 0, {}), FALSE)] }
    ELSE IF auth = "azure_ad"
    THEN _connect_with_token_manager(errs)
    ELSE { [ok |-> FALSE, connected |-> TRUE, e |-> OpExc(TRUE, f, TRUE)] : f \in errs }
         \cup { [ok |-> TRUE, connected |-> TRUE, e |-> NoOpExc] }

\* One run of the closure op() of execute / query_all: what it did and how it ended.
Attempt(ok, connects, closes, applied, e) ==
    [ok |-> ok, connects |-> connects, closes |-> closes, applied |-> applied, e |-> e]

\* op(): the statement runs on the transaction's connection
TxAttempts(errs) ==
    { Attempt(TRUE, 0, 0, TRUE, NoOpExc) }
    \cup { Attempt(FALSE, 0, 0, FALSE, OpExc(TRUE, f, TRUE)) : f \in errs }

\* op(): short-lived connection, closed in the finally clause
ShortLivedAttempts(errs) ==
    \* self._connect raised
    { Attempt(FALSE, IF c.connected THEN 1 ELSE 0, 0, FALSE, c.e) : c \in { x \in _connect(errs) : ~x.ok } }
    \cup
    (IF \E c \in _connect(errs) : c.ok
     THEN { Attempt(TRUE, 1, 1, TRUE, NoOpExc) }
          \* cur.execute raised
          \cup { Attempt(FALSE, 1, 1, FALSE, OpExc(TRUE, f, TRUE)) : f \in errs }
          \* the statement ran, conn.close() raised
          \cup { Attempt(FALSE, 1, 1, TRUE, OpExc(TRUE, f, TRUE)) : f \in errs }
     ELSE {})

OpAttempts(errs) ==
    IF tx_conn # 0 THEN TxAttempts(errs) ELSE ShortLivedAttempts(errs)

RetryAcc == [attempts |-> 0, connects |-> 0, closes |-> 0, sleeps |-> <<>>,
             applied |-> FALSE, res |-> "none", driver |-> FALSE, first |-> "none"]

\* The loop of _with_retry from iteration i on: the set of ways it can end.
\* retryable: the classes that are slept on and retried; factor: the backoff
\* multiplier.
RECURSIVE RetryLoop(_, _, _, _, _, _, _)
RetryLoop(outs, attempts, i, delay, acc, retryable, factor) ==
    UNION { LET derr == map_mssql_error(_extract_mssql_error_info(o.e))
                acc2 == [acc EXCEPT !.attempts = @ + 1,
                                    !.connects = @ + o.connects,
                                    !.closes = @ + o.closes,
                                    !.applied = @ \/ o.applied,
                                    !.first = IF i = 0 /\ ~o.ok THEN derr ELSE @]
            IN IF o.ok
               THEN { [acc2 EXCEPT !.res = "ok"] }
               ELSE IF derr \in retryable /\ i < attempts - 1
               THEN RetryLoop(outs, attempts, i + 1, delay * factor,
                              [acc2 EXCEPT !.sleeps = Append(@, delay)], retryable, factor)
               ELSE { [acc2 EXCEPT !.res = derr, !.driver = o.e.driver] }
          : o \in outs }

\* plausible slip: the backoff delay is not doubled
_with_retry_flat(outs, attempts, i, delay, acc) ==
    RetryLoop(outs, attempts, i, delay, acc, {"TransientError"}, 1)

\* plausible slip: timeouts are treated as retryable too
_with_retry_timeouts(outs, attempts, i, delay, acc) ==
    RetryLoop(outs, attempts, i, delay, acc, {"TransientError", "TimeoutError"}, 2)

_with_retry(outs, attempts, i, delay, acc) ==
    RetryLoop(outs, attempts, i, delay, acc, {"TransientError"}, 2)

LastNone == [op |-> "none", depth |-> 0, conn |-> 0, attempts |-> 0, connects |-> 0,
             closes |-> 0, sleeps |-> <<>>, res |-> "none", first |-> "none",
             excIn |-> 0, excOut |-> 0, rolled |-> FALSE, clean |-> FALSE,
             events |-> 0, msglen |-> 0,
             \* health_check: the configured timeout, the timeout passed to
             \* pyodbc.connect, and the one _connect passes under the same configuration
             timeout_seconds |-> 0,
             probe_timeout |-> 0, connect_timeout |-> 0]

\* length of str(err) explored: a driver text longer than the cap for
\* operational errors, a short text otherwise
ErrorLength(cls) == IF cls = "OperationalError" THEN 450 ELSE 40

\* str(err)[:200]
Cut200(n) == IF n > 200 THEN 200 ELSE n

\* self._notify(...) called n times before the call of record l ends, with an
\* observer installed; msglen: len(event["error_message"]) of a failure event
Notify(l, n) ==
    [l EXCEPT !.events = n,
              !.msglen = IF n > 0 /\ l.res # "ok" THEN Cut200(ErrorLength(l.res)) ELSE 0]

\* A newly created exception object: its identity differs from the one that
\* is propagating when it is created.
NewExc(cls, origin) ==
    [id |-> IF exc.id = 1 THEN 2 ELSE 1, cls |-> cls, origin |-> origin, through |-> 0]

Leaving(e) == [e EXCEPT !.through = exc.through + 1]

Fail(f) == [ok |-> FALSE, f |-> f]
Ok == [ok |-> TRUE, f |-> MssqlFeat("none", 0, {})]
DriverCall == {Ok} \cup { Fail(f) : f \in MssqlTxErrors }

Top(st) == st[Len(st)]
Pop(st) == SubSeq(st, 1, Len(st) - 1)

Event(c, ev) == [c EXCEPT !.hist = Append(@, ev)]

\* self._tx_conn.close(): uncommitted work of a closed connection is lost
CloseConn(c, fails) ==
    [c EXCEPT !.hist = Append(@, IF fails THEN "close_failed" ELSE "close"),
              !.open = fails,
              !.log = IF fails THEN @ ELSE <<>>]

\* MssqlAdapter.init
MssqlInit ==
    /\ backend = "mssql"
    /\ ~inited
    /\ \E a \in {"sql", "azure_ad"} : auth' = a
    /\ inited' = TRUE
    /\ UNCHANGED <<backend, tx_depth, tx_conn, conn, db, scopes, exc, last, nextId>>
    /\ UNCHANGED besideAdapter

\* MssqlAdapter.execute / query_all / query_one
MssqlExecute(op, errs) ==
    /\ backend = "mssql"
    /\ exc = NoExc
    /\ op = "execute" => nextId <= MaxOps
    /\ \E r \in _with_retry(OpAttempts(errs), DefaultAttempts, 0, DelayInitMs, RetryAcc) :
          LET writes == op = "execute" /\ r.applied
          IN /\ conn' = IF writes /\ tx_conn # 0
                        THEN [conn EXCEPT !.log = Append(@, nextId)]
                        ELSE conn
             /\ db' = IF writes /\ tx_conn = 0 THEN db \cup {nextId} ELSE db
             /\ exc' = IF r.res = "ok" THEN NoExc
                       ELSE NewExc(r.res, IF r.driver THEN "driver" ELSE "adapter")
             /\ last' = Notify([LastNone EXCEPT !.op = op, !.depth = tx_depth, !.conn = tx_conn,
                                                !.attempts = r.attempts, !.connects = r.connects,
                                                !.closes = r.closes, !.sleeps = r.sleeps,
                                                !.res = r.res, !.first = r.first,
                                                !.excOut = exc'.id], 1)
    /\ nextId' = IF op = "execute" THEN nextId + 1 ELSE nextId
    /\ UNCHANGED <<backend, inited, auth, tx_depth, tx_conn, scopes>>
    /\ UNCHANGED besideAdapter

\* transaction(): the try block that opens the cursor and sets the savepoint,
\* entered with connection c (id cid) held in self._tx_conn
MssqlEnterStart(c, cid, s, closeFails) ==
    LET d == tx_depth + 1
        started == s.ok /\ cid # 0
    IN IF started
       THEN /\ ~closeFails
            /\ tx_depth' = d
            /\ tx_conn' = cid
            /\ conn' = IF d > 1 THEN [c EXCEPT !.log = Append(@, -d)] ELSE c
            /\ scopes' = Append(scopes, [sp |-> d, entry |-> Len(conn'.log)])
            /\ exc' = NoExc
            /\ last' = Notify([LastNone EXCEPT !.op = "tx_enter", !.depth = tx_depth,
                                               !.conn = cid, !.res = "ok",
                                               !.connects = IF tx_depth = 0 THEN 1 ELSE 0], 0)
            /\ nextId' = nextId + 1
       ELSE /\ tx_depth' = d - 1
            /\ IF d - 1 = 0 /\ cid # 0
               THEN conn' = CloseConn(c, closeFails) /\ tx_conn' = 0
               ELSE conn' = c /\ tx_conn' = cid /\ ~closeFails
            /\ scopes' = scopes
            /\ exc' = IF cid # 0 THEN NewExc(map_mssql_error(s.f), "driver")
                       ELSE NewExc(map_mssql_error(Ok.f), "adapter")
            /\ last' = Notify([LastNone EXCEPT !.op = "tx_enter", !.depth = tx_depth,
                                               !.conn = cid, !.res = exc'.cls, !.excOut = exc'.id,
                                               !.connects = IF tx_depth = 0 THEN 1 ELSE 0], 1)
            /\ UNCHANGED nextId

\* transaction(): entry up to the yield
MssqlTransactionEnter ==
    /\ backend = "mssql"
    /\ exc = NoExc
    /\ Len(scopes) < MaxDepth
    /\ nextId <= MaxOps
    /\ IF tx_depth = 0
       THEN \E c \in _connect(MssqlTxErrors) :
              IF c.ok
              THEN /\ conn.id < MaxTx
                   /\ \E s \in DriverCall, cf \in BOOLEAN :
                        MssqlEnterStart([NoConn EXCEPT !.id = conn.id + 1, !.open = TRUE],
                                        conn.id + 1, s, cf)
              ELSE \* self._connect raised, before the try block
                   /\ exc' = NewExc(IF c.e.raw THEN "pyodbc.Error" ELSE "DatabaseError",
                                    IF c.e.driver THEN "driver" ELSE "adapter")
                   /\ last' = Notify([LastNone EXCEPT !.op = "tx_enter", !.depth = tx_depth,
                                                      !.res = exc'.cls, !.excOut = exc'.id,
                                                      !.connects = IF c.connected THEN 1 ELSE 0], 0)
                   /\ UNCHANGED <<nextId, tx_depth, tx_conn, conn, scopes>>
       ELSE \E s \in DriverCall, cf \in BOOLEAN : MssqlEnterStart(conn, tx_conn, s, cf)
    /\ UNCHANGED <<backend, inited, auth, db>>
    /\ UNCHANGED besideAdapter

\* plausible slip: the connection is closed one level too early, never at the outermost
MssqlExitFinally_early(c, closeFails) ==
    /\ tx_depth' = tx_depth - 1
    /\ IF tx_depth - 1 = 1 /\ tx_conn # 0
       THEN conn' = CloseConn(c, closeFails) /\ tx_conn' = 0
       ELSE conn' = c /\ tx_conn' = tx_conn /\ ~closeFails

\* The finally clause of both exit paths: depth -= 1, close at depth 0
MssqlExitFinally(c, closeFails) ==
    /\ tx_depth' = tx_depth - 1
    /\ IF tx_depth - 1 = 0 /\ tx_conn # 0
       THEN conn' = CloseConn(c, closeFails) /\ tx_conn' = 0
       ELSE conn' = c /\ tx_conn' = tx_conn /\ ~closeFails

\* plausible slip: every level rolls the whole connection back
MssqlRollback_whole(c, depth, sp, ok) ==
    IF ok THEN Event([c EXCEPT !.log = <<>>, !.undone = @ \cup Stmts(c.log)], "rollback")
    ELSE Event(c, "rollback_failed")

\* The rollback statement of the except branch, run on connection c
MssqlRollback(c, depth, sp, ok) ==
    IF depth > 1
    THEN IF ok THEN [c EXCEPT !.log = RollbackTo(@, sp),
                              !.undone = @ \cup (Stmts(c.log) \ Stmts(RollbackTo(c.log, sp)))]
         ELSE c
    ELSE IF ok THEN Event([c EXCEPT !.log = <<>>, !.undone = @ \cup Stmts(c.log)], "rollback")
         ELSE Event(c, "rollback_failed")

\* What leaves the except branch: raise inner_exc, unless the rollback
\* raised (raise err) or the close in the finally clause raised
MssqlReRaise(inner, rolled, err, closeFails, closeErr) ==
    IF closeFails THEN closeErr
    ELSE IF rolled THEN inner
    ELSE err

\* transaction(): the body raised inner_exc (except Exception branch)
MssqlTransactionExitExc ==
    /\ backend = "mssql"
    /\ exc # NoExc
    /\ scopes # <<>>
    /\ \E rb \in DriverCall, cf \in BOOLEAN :
         LET sp == Top(scopes).sp
             rolled == /\ rb.ok
                       /\ tx_conn # 0
                       /\ tx_depth > 1 => HasSavepoint(conn.log, sp)
             c1 == IF tx_conn = 0 THEN conn ELSE MssqlRollback(conn, tx_depth, sp, rolled)
             err == IF tx_conn # 0 THEN NewExc(map_mssql_error(rb.f), "driver")
                    ELSE NewExc(map_mssql_error(Ok.f), "adapter")
         IN /\ MssqlExitFinally(c1, cf)
            /\ exc' = Leaving(MssqlReRaise(exc, rolled, err, cf, NewExc("pyodbc.Error", "driver")))
            /\ last' = Notify([LastNone EXCEPT !.op = "tx_exit_exc", !.depth = tx_depth,
                                               !.conn = tx_conn, !.res = exc'.cls,
                                               !.excIn = exc.id, !.excOut = exc'.id,
                                               !.rolled = rolled, !.clean = rolled /\ ~cf,
                                               !.closes = IF conn'.hist # c1.hist THEN 1 ELSE 0], IF rolled THEN 0 ELSE 1)
    /\ scopes' = Pop(scopes)
    /\ UNCHANGED <<backend, inited, auth, db, nextId>>
    /\ UNCHANGED besideAdapter

\* plausible slip: every level commits
MssqlCommits_always(depth) == depth >= 1

\* if self._tx_depth == 1: self._tx_conn.commit()
MssqlCommits(depth) == depth = 1

\* transaction(): the body returned (else branch)
MssqlTransactionExitNormal ==
    /\ backend = "mssql"
    /\ exc = NoExc
    /\ scopes # <<>>
    /\ \E cm \in DriverCall, cf \in BOOLEAN :
         LET commits == MssqlCommits(tx_depth)
             committed == commits /\ cm.ok /\ tx_conn # 0
             failed == commits /\ ~committed
             c1 == IF ~commits \/ tx_conn = 0 THEN conn
                   ELSE IF committed THEN Event([conn EXCEPT !.log = <<>>], "commit")
                   ELSE Event(conn, "commit_failed")
             err == IF tx_conn # 0 THEN NewExc(map_mssql_error(cm.f), "driver")
                    ELSE NewExc(map_mssql_error(Ok.f), "adapter")
         IN /\ commits \/ cm.ok
            /\ MssqlExitFinally(c1, cf)
            /\ db' = IF committed THEN db \cup Stmts(conn.log) ELSE db
            /\ exc' = IF cf THEN NewExc("pyodbc.Error", "driver")
                      ELSE IF failed THEN err
                      ELSE NoExc
            /\ last' = Notify([LastNone EXCEPT !.op = "tx_exit", !.depth = tx_depth,
                                               !.conn = tx_conn,
                                               !.res = IF exc' = NoExc THEN "ok" ELSE exc'.cls,
                                               !.excOut = exc'.id,
                                               !.closes = IF conn'.hist # c1.hist THEN 1 ELSE 0], 1)
    /\ scopes' = Pop(scopes)
    /\ UNCHANGED <<backend, inited, auth, nextId>>
    /\ UNCHANGED besideAdapter

(* The caller: code inside and around the with-blocks *)

\* the body of the innermost scope raises an exception of its own
BodyRaise ==
    /\ exc = NoExc
    /\ scopes # <<>>
    /\ exc' = NewExc("AppException", "app")
    /\ UNCHANGED <<backend, inited, auth, tx_depth, tx_conn, conn, db, scopes, last, nextId>>
    /\ UNCHANGED besideAdapter

\* an except clause of the caller (in the enclosing body or at top level)
\* swallows the propagating exception
Catch ==
    /\ exc # NoExc
    /\ exc' = NoExc
    /\ last' = LastNone
    /\ UNCHANGED <<backend, inited, auth, tx_depth, tx_conn, conn, db, scopes, nextId>>
    /\ UNCHANGED besideAdapter


\* GatewayConfig.timeout_seconds values explored; 0 stands for the falsy
\* values (None and 0), which "timeout_seconds or 30" replaces by 30
TimeoutSeconds == {0, 5, 30}

\* int(self._cfg.timeout_seconds or 30)
ConfiguredTimeout(t) == IF t = 0 THEN 30 ELSE t

\* _connect: timeout = max(1, int(self._cfg.timeout_seconds or 30))
ConnectTimeout(t) == IF ConfiguredTimeout(t) < 1 THEN 1 ELSE ConfiguredTimeout(t)

\* health_check.op: health_check_timeout = min(10, int(... or 30)); the
\* further min(5, ...) for azure_ad_interactive is never reached, since
\* health_check returns before op() for every azure_ad mode
HealthCheckTimeout(t) == IF ConfiguredTimeout(t) > 10 THEN 10 ELSE ConfiguredTimeout(t)

\* health_check retrying like execute does
HealthCheckAttempts_retry == DefaultAttempts

\* health_check: self._with_retry(op, attempts=1)
HealthCheckAttempts == 1

\* MssqlAdapter.health_check
HealthAttempts(errs) ==
    IF ~inited
    THEN { Attempt(FALSE, 0, 0, FALSE, OpExc(FALSE, MssqlFeat("none", 0, {}), FALSE)) }
    ELSE \* pyodbc.connect raised
         { Attempt(FALSE, 1, 0, FALSE, OpExc(TRUE, f, TRUE)) : f \in errs }
         \* SELECT 1 raised (the connection is closed in the finally clause)
         \cup { Attempt(FALSE, 1, 1, FALSE, OpExc(TRUE, f, TRUE)) : f \in errs }
         \* the row is not (1,): DatabaseError("MSSQL health check failed")
         \cup { Attempt(FALSE, 1, 1, FALSE, OpExc(FALSE, MssqlFeat("none", 0, {}), FALSE)) }
         \cup { Attempt(TRUE, 1, 1, FALSE, NoOpExc) }

MssqlHealthCheck(errs) ==
    /\ backend = "mssql"
    /\ exc = NoExc
    /\ IF inited /\ auth = "azure_ad"
       THEN /\ last' = Notify([LastNone EXCEPT !.op = "health_check", !.depth = tx_depth,
                                               !.conn = tx_conn, !.res = "ok"], 1)
            /\ UNCHANGED exc
       ELSE \E r \in _with_retry(HealthAttempts(errs), HealthCheckAttempts, 0, DelayInitMs, RetryAcc),
               t \in (IF inited THEN TimeoutSeconds ELSE {0}) :
              /\ exc' = IF r.res = "ok" THEN NoExc
                        ELSE NewExc(r.res, IF r.driver THEN "driver" ELSE "adapter")
              /\ last' = Notify([LastNone EXCEPT !.op = "health_check", !.depth = tx_depth,
                                                 !.conn = tx_conn,
                                                 !.attempts = r.attempts, !.connects = r.connects,
                                                 !.closes = r.closes, !.sleeps = r.sleeps,
                                                 !.res = r.res, !.excOut = exc'.id,
                                                 !.timeout_seconds = t,
                                                 !.probe_timeout =
                                                     IF inited THEN HealthCheckTimeout(t) ELSE 0,
                                                 !.connect_timeout =
                                                     IF inited THEN ConnectTimeout(t) ELSE 0], 1)
    /\ UNCHANGED <<backend, inited, auth, tx_depth, tx_conn, conn, db, scopes, nextId>>
    /\ UNCHANGED besideAdapter

----------------------------------------------------------------------------
(* SqliteAdapter: src/services/db_adapters/sqlite_adapter.py *)

SqFail(e) == [ok |-> FALSE, e |-> e]
SqOk == [ok |-> TRUE, e |-> [type |-> "none", msg |-> "other"]]
SqliteCall == {SqOk} \cup { SqFail(e) : e \in SqliteDriverErrors }
\* Failures explored for SAVEPOINT / ROLLBACK TO / RELEASE
SqliteTxErrors == { [type |-> "OperationalError", msg |-> "database is locked"],
                    [type |-> "InterfaceError",   msg |-> "other"] }
SqliteTxCall == {SqOk} \cup { SqFail(e) : e \in SqliteTxErrors }

\* sqlite3 refuses any statement on a closed connection
ClosedDb == [type |-> "ProgrammingError", msg |-> "other"]
\* ROLLBACK TO / RELEASE of a savepoint that does not exist
NoSuchSavepoint == [type |-> "OperationalError", msg |-> "other"]

\* what one conn.execute(...) call does, given the outcome the driver chose
SqRun(c, call) == IF ~c.open THEN SqFail(ClosedDb) ELSE call

\* releasing the outermost savepoint commits the transaction it started
SqAfterRelease(c, sp) ==
    LET lg == ReleaseMarkers(c.log, sp)
    IN IF \E i \in 1..Len(lg) : lg[i] < 0 THEN lg ELSE <<>>

SqReleaseCommits(c, sp) ==
    LET lg == ReleaseMarkers(c.log, sp)
    IN ~ \E i \in 1..Len(lg) : lg[i] < 0

\* SqliteAdapter.init
SqliteInit ==
    /\ backend = "sqlite"
    /\ ~inited
    /\ exc = NoExc
    /\ \E call \in SqliteTxCall :
         IF call.ok
         THEN /\ inited' = TRUE
              /\ conn' = [NoConn EXCEPT !.id = 1, !.open = TRUE, !.autocommit = TRUE]
              /\ UNCHANGED exc
              /\ last' = Notify([LastNone EXCEPT !.op = "init", !.res = "ok"], 0)
         ELSE /\ exc' = NewExc(map_sqlite_exception(call.e), "driver")
              /\ last' = Notify([LastNone EXCEPT !.op = "init", !.res = exc'.cls, !.excOut = exc'.id], 0)
              /\ UNCHANGED <<inited, conn>>
    /\ UNCHANGED <<backend, auth, tx_depth, tx_conn, db, scopes, nextId>>
    /\ UNCHANGED besideAdapter

\* _ensure_conn raising DatabaseError("SQLite adapter not initialized")
SqNotInitialized(op) ==
    /\ exc' = NewExc("DatabaseError", "adapter")
    /\ last' = Notify([LastNone EXCEPT !.op = op, !.depth = tx_depth, !.res = "DatabaseError",
                                       !.excOut = exc'.id], 0)
    /\ UNCHANGED <<tx_depth, conn, db, scopes, nextId>>

\* SqliteAdapter.execute / query_all / query_one
SqliteExecute(op, calls) ==
    /\ backend = "sqlite"
    /\ exc = NoExc
    /\ op = "execute" => nextId <= MaxOps
    /\ IF ~inited
       THEN SqNotInitialized(op)
       ELSE \E call \in calls :
              LET r == SqRun(conn, call)
                  writes == op = "execute" /\ r.ok
              IN /\ conn' = IF writes /\ conn.log # <<>>
                            THEN [conn EXCEPT !.log = Append(@, nextId)]
                            ELSE conn
                 /\ db' = IF writes /\ conn.log = <<>> THEN db \cup {nextId} ELSE db
                 /\ exc' = IF r.ok THEN NoExc ELSE NewExc(map_sqlite_exception(r.e), "driver")
                 /\ last' = Notify([LastNone EXCEPT !.op = op, !.depth = tx_depth, !.conn = conn.id,
                                                    !.attempts = 1,
                                                    !.res = IF r.ok THEN "ok" ELSE exc'.cls,
                                                    !.excOut = exc'.id], 1)
                 /\ nextId' = IF op = "execute" THEN nextId + 1 ELSE nextId
                 /\ UNCHANGED <<tx_depth, scopes>>
    /\ UNCHANGED <<backend, inited, auth, tx_conn>>
    /\ UNCHANGED besideAdapter

\* SqliteAdapter.health_check
SqliteHealthCheck(calls) ==
    /\ backend = "sqlite"
    /\ exc = NoExc
    /\ IF ~inited
       THEN SqNotInitialized("health_check")
       ELSE \E call \in calls, rowOk \in BOOLEAN :
              LET r == SqRun(conn, call)
              IN /\ r.ok \/ rowOk
                 /\ exc' = IF r.ok /\ rowOk THEN NoExc
                           ELSE IF r.ok THEN NewExc("DatabaseError", "adapter")
                           ELSE NewExc(map_sqlite_exception(r.e), "driver")
                 /\ last' = Notify([LastNone EXCEPT !.op = "health_check", !.depth = tx_depth,
                                                    !.conn = conn.id, !.attempts = 1,
                                                    !.res = IF exc' = NoExc THEN "ok" ELSE exc'.cls,
                                                    !.excOut = exc'.id], 1)
                 /\ UNCHANGED <<tx_depth, conn, db, scopes, nextId>>
    /\ UNCHANGED <<backend, inited, auth, tx_conn>>
    /\ UNCHANGED besideAdapter


\* SqliteAdapter.transaction: entry up to the yield
SqliteTransactionEnter ==
    /\ backend = "sqlite"
    /\ exc = NoExc
    /\ Len(scopes) < MaxDepth
    /\ nextId <= MaxOps
    /\ IF ~inited
       THEN SqNotInitialized("tx_enter")
       ELSE \E call \in SqliteTxCall :
              LET r == SqRun(conn, call)
                  d == tx_depth + 1
              IN IF r.ok
                 THEN /\ tx_depth' = d
                      /\ conn' = [conn EXCEPT !.log = Append(@, -d),
                                               !.undone = IF conn.log = <<>> THEN {} ELSE @]
                      /\ scopes' = Append(scopes, [sp |-> d, entry |-> Len(conn'.log)])
                      /\ last' = Notify([LastNone EXCEPT !.op = "tx_enter", !.depth = tx_depth,
                                                         !.conn = conn.id, !.res = "ok"], 0)
                      /\ nextId' = nextId + 1
                      /\ UNCHANGED <<exc, db>>
                 ELSE /\ tx_depth' = d - 1
                      /\ exc' = NewExc(map_sqlite_exception(r.e), "driver")
                      /\ last' = Notify([LastNone EXCEPT !.op = "tx_enter", !.depth = tx_depth,
                                                         !.conn = conn.id, !.res = exc'.cls,
                                                         !.excOut = exc'.id], 1)
                      /\ UNCHANGED <<conn, scopes, db, nextId>>
    /\ UNCHANGED <<backend, inited, auth, tx_conn>>
    /\ UNCHANGED besideAdapter

\* What leaves the except branch: raise inner_exc, unless ROLLBACK TO or
\* RELEASE raised (raise err)
SqliteReRaise(inner, ok, err) == IF ok THEN inner ELSE err

\* SqliteAdapter.transaction: the body raised inner_exc
SqliteTransactionExitExc ==
    /\ backend = "sqlite"
    /\ exc # NoExc
    /\ scopes # <<>>
    /\ \E rbc \in SqliteTxCall, rlc \in SqliteTxCall :
         LET sp == Top(scopes).sp
             rb == IF HasSavepoint(conn.log, sp) THEN SqRun(conn, rbc)
                   ELSE SqRun(conn, SqFail(NoSuchSavepoint))
             c1 == IF rb.ok
                   THEN [conn EXCEPT !.log = RollbackTo(@, sp),
                                     !.undone = @ \cup (Stmts(conn.log) \ Stmts(RollbackTo(conn.log, sp)))]
                   ELSE conn
             rl == IF rb.ok THEN SqRun(c1, rlc) ELSE rb
             c2 == IF rb.ok /\ rl.ok THEN [c1 EXCEPT !.log = SqAfterRelease(c1, sp)] ELSE c1
         IN /\ rb.ok \/ rlc = SqOk
            /\ conn' = c2
            /\ db' = IF rb.ok /\ rl.ok /\ SqReleaseCommits(c1, sp)
                     THEN db \cup Stmts(c1.log) ELSE db
            /\ exc' = Leaving(SqliteReRaise(exc, rb.ok /\ rl.ok,
                                            NewExc(map_sqlite_exception(rl.e), "driver")))
            /\ last' = Notify([LastNone EXCEPT !.op = "tx_exit_exc", !.depth = tx_depth,
                                               !.conn = conn.id, !.res = exc'.cls,
                                               !.excIn = exc.id, !.excOut = exc'.id,
                                               !.rolled = rb.ok, !.clean = rb.ok /\ rl.ok], IF rb.ok /\ rl.ok THEN 0 ELSE 1)
    /\ tx_depth' = tx_depth - 1
    /\ scopes' = Pop(scopes)
    /\ UNCHANGED <<backend, inited, auth, tx_conn, nextId>>
    /\ UNCHANGED besideAdapter

\* SqliteAdapter.transaction: the body returned
SqliteTransactionExitNormal ==
    /\ backend = "sqlite"
    /\ exc = NoExc
    /\ scopes # <<>>
    /\ \E rlc \in SqliteTxCall :
         LET sp == Top(scopes).sp
             rl == IF HasSavepoint(conn.log, sp) THEN SqRun(conn, rlc)
                   ELSE SqRun(conn, SqFail(NoSuchSavepoint))
         IN /\ conn' = IF rl.ok THEN [conn EXCEPT !.log = SqAfterRelease(conn, sp)] ELSE conn
            /\ db' = IF rl.ok /\ SqReleaseCommits(conn, sp)
                     THEN db \cup Stmts(conn.log) ELSE db
            /\ exc' = IF rl.ok THEN NoExc ELSE NewExc(map_sqlite_exception(rl.e), "driver")
            /\ last' = Notify([LastNone EXCEPT !.op = "tx_exit", !.depth = tx_depth,
                                               !.conn = conn.id,
                                               !.res = IF rl.ok THEN "ok" ELSE exc'.cls,
                                               !.excOut = exc'.id], 1)
    /\ tx_depth' = tx_depth - 1
    /\ scopes' = Pop(scopes)
    /\ UNCHANGED <<backend, inited, auth, tx_conn, nextId>>
    /\ UNCHANGED besideAdapter

----------------------------------------------------------------------------
(* Specification of one adapter and its caller *)

BridgeIdle ==
    /\ item = <<>>
    /\ workq = <<>>
    /\ evq = <<>>
    /\ uistack = <<>>
    /\ uirun = 0
    /\ waiting = <<>>

\* ConnectionDescriptor: the fields that enter cache_key() and the checks
NoDescriptor == [auth_type |-> "none", username |-> "none"]

\* descriptors explored: two users of the browser-interactive mode and one
\* of a non-interactive mode (server and database are the same for all)
Descriptors == { [auth_type |-> "azure_ad_interactive", username |-> "a"],
                 [auth_type |-> "azure_ad_interactive", username |-> "b"],
                 [auth_type |-> "azure_ad_password",    username |-> "a"] }

\* ConnectionDescriptor.cache_key
cache_key(d) == <<d.auth_type, d.username>>

Keys == { cache_key(d) : d \in Descriptors }

\* AuthToken; NoToken stands for a key that is not in the dict
AuthToken(tok, exp) == [access_token |-> tok, expires_at |-> exp]

NoToken == AuthToken("none", 0)

Threads == {"main", "bg"}

\* a thread that is inside no token-manager call
Idle == [op |-> "idle", d |-> NoDescriptor, step |-> "none", via |-> "none",
         seen |-> [access_token |-> "none", expires_at |-> 0], first |-> "none"]

NoCall == [flip |-> FALSE, t |-> "none", op |-> "none", d |-> NoDescriptor, ret |-> "none",
           connects |-> 0, first |-> "none", hit |-> FALSE]

\* AzureADTokenManager.__init__, no call made
TokenIdle ==
    /\ _token_cache = [k \in Keys |-> NoToken]
    /\ _lock = "none"
    /\ now = 0
    /\ tpc = [t \in Threads |-> Idle]
    /\ done = NoCall

NoResult == [is_valid |-> FALSE, missing_tables |-> {}, extra_tables |-> {},
             table_deviations |-> << >>, has_no_tables |-> FALSE,
             error_message |-> "none", returned |-> FALSE, raised |-> FALSE]

\* deploy_schema not called; script: the lines of azure.sql
NoDeploy == [script |-> << >>, statements |-> << >>, executed |-> << >>, applied |-> {},
             depths |-> {}, outcome |-> "none"]

\* SchemaValidator constructed, validate_schema not called
ValIdle ==
    /\ catalog = << >>
    /\ fault = "none"
    /\ result = NoResult
    /\ previous = NoResult
    /\ validations = 0
    /\ deploy = NoDeploy

NoTypeCheck == [expected_type |-> "none", existing_type |-> "none", called |-> FALSE,
                compatible |-> FALSE, reverse |-> FALSE, deviations |-> {}]

\* AppContext.__init__; stage: where the open-project flow of the controller
\* stands, error: str() of the exception load_project raised last
NoApp == [_gateway |-> "none", _project |-> "none", _pending_schema_validation |-> FALSE,
          stage |-> "start", error |-> "none"]

\* no call made yet; password: the sql_password load_project passed to
\* MssqlAdapter.init, deploys: the calls of deploy_schema the call made
NoCall_ctx == [op |-> "none", path |-> "none", ret |-> "none", raised |-> "none",
               password |-> "none", deploys |-> 0, pending_before |-> FALSE]

\* project settings files: two remote projects with SQL authentication and
\* a local one
RemotePaths == {"p", "q"}
LocalPaths == {"l"}

\* no entry of _session_credentials
NoCipher == [key |-> "none", data |-> "none"]

\* no entry in the keyring; owner: the project path the entry was written for
NoEntry == [owner |-> "none", password |-> "none"]

\* a fresh SecureCredentialManager, nothing written to the keyring
CredIdle ==
    /\ ctxcall = NoCall_ctx
    /\ crypto = "fernet"
    /\ _session_credentials = [x \in RemotePaths |-> NoCipher]
    /\ keyring = NoEntry
    /\ stored = [x \in RemotePaths |-> "none"]

AppIdle == app = NoApp /\ CredIdle

NoBuilt == [auth_type |-> "windows", username |-> "", server |-> "", database |-> "",
            authority |-> "", called |-> FALSE, raised |-> FALSE,
            kwargs |-> <<>>, conn_str |-> <<>>]

\* no run_migrations call made; stored: the value of meta.schema_version
\* ("missing": no such row), found: what check_version returned, calls: the
\* storage adapter's methods called by the current run, failed: the call
\* whose exception the except clause caught
NoMig == [stored |-> "missing", pc |-> "idle", found |-> "none", calls |-> <<>>,
          ret |-> "none", raised |-> "none", failed |-> "none", runs |-> 0]

\* compared: the error was raised by pyodbc.connect on both connect paths;
\* direct / token: the class and the attempts of the call on each path
NoPath == [cls |-> "none", attempts |-> 0]
NoMapped == [feat |-> MssqlFeat("none", 0, {}), called |-> FALSE, cls |-> "none",
             compared |-> FALSE, direct |-> NoPath, token |-> NoPath]

\* no function applied, no project opened
FnIdle ==
    /\ typecheck = NoTypeCheck
    /\ built = NoBuilt
    /\ mapped = NoMapped
    /\ mig = NoMig
    /\ AppIdle

InitTx ==
    /\ backend \in {"mssql", "sqlite"}
    /\ inited = FALSE
    /\ auth = "none"
    /\ tx_depth = 0
    /\ tx_conn = 0
    /\ conn = NoConn
    /\ db = {}
    /\ scopes = <<>>
    /\ exc = NoExc
    /\ last = LastNone
    /\ nextId = 1
    /\ BridgeIdle
    /\ TokenIdle
    /\ ValIdle
    /\ FnIdle

Ops == {"execute", "query_all", "query_one"}

NextTx ==
    \/ MssqlInit
    \/ \E op \in Ops : MssqlExecute(op, MssqlTxErrors)
    \/ MssqlTransactionEnter
    \/ MssqlTransactionExitExc
    \/ MssqlTransactionExitNormal
    \/ MssqlHealthCheck(MssqlTxErrors)
    \/ SqliteInit
    \/ \E op \in Ops : SqliteExecute(op, SqliteTxCall)
    \/ SqliteTransactionEnter
    \/ SqliteTransactionExitExc
    \/ SqliteTransactionExitNormal
    \/ SqliteHealthCheck(SqliteTxCall)
    \/ BodyRaise
    \/ Catch

SpecTx == InitTx /\ [][NextTx]_vars

(* close() of the adapters *)

\* plausible slip: the except clause of close() is missing
CloseRaises_propagate(fails) == fails

\* close(): except Exception: pass
CloseRaises(fails) == FALSE

\* MssqlAdapter.close
MssqlClose(closeFails) ==
    /\ backend = "mssql"
    /\ IF tx_conn # 0
       THEN /\ conn' = CloseConn(conn, closeFails)
            /\ tx_conn' = 0
            /\ tx_depth' = 0
            /\ exc' = IF CloseRaises(closeFails) THEN NewExc("pyodbc.Error", "driver") ELSE exc
       ELSE /\ ~closeFails
            /\ UNCHANGED <<conn, tx_conn, tx_depth, exc>>
    /\ last' = [LastNone EXCEPT !.op = "close", !.conn = tx_conn,
                                !.res = IF exc' = exc THEN "ok" ELSE exc'.cls]
    /\ UNCHANGED <<backend, inited, auth, db, scopes, nextId>>
    /\ UNCHANGED besideAdapter

\* SqliteAdapter.close
SqliteClose(closeFails) ==
    /\ backend = "sqlite"
    /\ IF inited
       THEN /\ conn' = CloseConn(conn, closeFails)
            /\ inited' = FALSE
            /\ exc' = IF CloseRaises(closeFails) THEN NewExc("sqlite3.Error", "driver") ELSE exc
       ELSE /\ ~closeFails
            /\ UNCHANGED <<conn, inited, exc>>
    /\ last' = [LastNone EXCEPT !.op = "close", !.conn = IF inited THEN conn.id ELSE 0,
                                !.res = IF exc' = exc THEN "ok" ELSE exc'.cls]
    /\ UNCHANGED <<backend, auth, tx_depth, tx_conn, db, scopes, nextId>>
    /\ UNCHANGED besideAdapter

NextClose ==
    \/ NextTx
    \/ \E cf \in BOOLEAN : MssqlClose(cf)
    \/ \E cf \in BOOLEAN : SqliteClose(cf)

SpecClose == InitTx /\ [][NextClose]_vars

\* The remote adapter outside any transaction, with every classification
\* outcome of a driver failure explored
InitRetry == InitTx /\ backend = "mssql"

NextRetry ==
    \/ MssqlInit
    \/ \E op \in Ops : MssqlExecute(op, MssqlDriverErrors)
    \/ MssqlHealthCheck(MssqlDriverErrors)
    \/ Catch

SpecRetry == InitRetry /\ [][NextRetry]_vars


----------------------------------------------------------------------------
(* Background bridge: run_bg, the executor, the queued signal, the UI thread *)

MaxItems == 5      \* work items submitted with run_bg in one behaviour
MaxNest  == 1      \* modal dialogs open at the same time on the UI thread
MaxFail  == 2      \* work items whose fn raises in one behaviour
MaxWatch == 2      \* first work items whose completion order is recorded
MaxCbItems == 3    \* work items in one behaviour in which callbacks may raise
MaxRaise == 2      \* callbacks that raise in one behaviour

\* ThreadPoolExecutor(max_workers=4)
MaxWorkers == 4

\* _invoke_target is created when the module is imported by the UI code, so
\* the slot runs on the thread the object lives in
InvokerThread == "ui"

Items == DOMAIN item

\* attached: _done_cb is in Future._done_callbacks and has not been invoked
\* end: how the slot call of the item's callback ended; after: a callback of
\* another item had raised before this one's callback started
NewItem == [st |-> "pending", attached |-> FALSE, out |-> "none",
            nres |-> 0, nerr |-> 0, thr |-> "none", arg |-> 0,
            end |-> "none", after |-> FALSE]

\* Future._state is FINISHED (read under the future's condition lock)
Finished(i) == item[i].st \in {"finished", "notified"}

\* worker threads that are inside _WorkItem.run
Busy == {i \in Items : item[i].st \in {"running", "finished"}}

\* the value fn returned or the exception it raised, as carried by the Future
Payload(i) == [of |-> i, out |-> item[i].out]

\* plausible slip: the error branch lacks its return and falls through
_done_cb_fallthrough(i) ==
    IF item[i].out = "err"
    THEN << [i |-> i, cb |-> "on_error", arg |-> Payload(i)],
            [i |-> i, cb |-> "on_result", arg |-> Payload(i)] >>
    ELSE << [i |-> i, cb |-> "on_result", arg |-> Payload(i)] >>

\* run_bg._done_cb: the callables it hands to _on_ui, in order (both
\* callbacks supplied)
_done_cb(i) ==
    IF item[i].out = "err"
    THEN << [i |-> i, cb |-> "on_error", arg |-> Payload(i)] >>
    ELSE << [i |-> i, cb |-> "on_result", arg |-> Payload(i)] >>

\* _on_ui: callback_signal.emit through the Qt.QueuedConnection posts one
\* slot call per emission to the event queue of the invoker's thread
_on_ui(q, cbs) == q \o cbs

\* modal dialogs currently open on the UI thread
Loops == Len(uistack)

\* _worker: a thread that has finished a work item takes the oldest queued one
TakeNext(it, q) == IF q = <<>> THEN it ELSE [it EXCEPT ![Head(q)].st = "running"]

\* run_bg, first half: _executor.submit(fn); an idle worker thread (or a new
\* one, up to max_workers) picks the item up, otherwise it waits in the queue
Submit ==
    /\ uirun = 0
    /\ Len(item) < MaxItems
    /\ IF Cardinality(Busy) < MaxWorkers
       THEN /\ item' = Append(item, [NewItem EXCEPT !.st = "running"])
            /\ UNCHANGED workq
       ELSE /\ item' = Append(item, NewItem)
            /\ workq' = Append(workq, Len(item) + 1)
    /\ uirun' = Len(item) + 1
    /\ UNCHANGED <<evq, uistack, waiting>>
    /\ UNCHANGED besideBridge

\* run_bg, second half: fut.add_done_callback(_done_cb); a Future that is
\* already FINISHED calls _done_cb at once, in the calling (UI) thread
AddDone ==
    /\ uirun # 0
    /\ IF Finished(uirun)
       THEN /\ evq' = _on_ui(evq, _done_cb(uirun))
            /\ UNCHANGED item
       ELSE /\ item' = [item EXCEPT ![uirun].attached = TRUE]
            /\ UNCHANGED evq
    /\ uirun' = 0
    /\ UNCHANGED <<workq, uistack, waiting>>
    /\ UNCHANGED besideBridge

\* _WorkItem.run: fn returns or raises, and set_result / set_exception
\* makes the Future FINISHED
WorkerFinish(i, out) ==
    /\ i \in Items
    /\ item[i].st = "running"
    /\ out = "err" => Cardinality({j \in Items : item[j].out = "err"}) < MaxFail
    /\ item' = [item EXCEPT ![i].st = "finished", ![i].out = out]
    /\ waiting' = IF i <= MaxWatch THEN Append(waiting, i) ELSE waiting
    /\ UNCHANGED <<workq, evq, uistack, uirun>>
    /\ UNCHANGED besideBridge

\* Future._invoke_callbacks, on the worker thread, after the lock is
\* released; the thread then goes back to the work queue
InvokeCallbacks(i) ==
    /\ i \in Items
    /\ item[i].st = "finished"
    /\ item' = TakeNext([item EXCEPT ![i].st = "notified", ![i].attached = FALSE], workq)
    /\ workq' = IF workq = <<>> THEN workq ELSE Tail(workq)
    /\ evq' = IF item[i].attached THEN _on_ui(evq, _done_cb(i)) ELSE evq
    /\ UNCHANGED <<uistack, uirun, waiting>>
    /\ UNCHANGED besideBridge

\* plausible slip: no try/except around callback()
_execute_callback_bare(raises) == IF raises THEN "escaped" ELSE "returned"

\* _UiInvoker._execute_callback: how the slot call ends - callback() returned,
\* or the exception it raised was caught by the except clause, or it left
\* the slot and reached the event loop
_execute_callback(raises) == IF raises THEN "caught" ELSE "returned"

\* callbacks that have raised so far
Raised == {i \in Items : item[i].end \in {"caught", "escaped"}}

\* The event loop running on the UI thread (the application's, or the one of
\* the innermost open dialog) delivers the oldest queued slot call:
\* _UiInvoker._execute_callback runs callback().  The callback runs to its
\* end, or shows a modal dialog (dialog.exec(), QMessageBox.*) and stays on
\* the stack inside the dialog's event loop, or raises.  In the except
\* clause QMessageBox.critical shows a modal error box (box), or fails to and
\* the inner except clause prints a line.
ExecuteCallback(modal, raises, box) ==
    /\ uirun = 0
    /\ evq # <<>>
    /\ (modal \/ box) => Loops < MaxNest
    /\ LET ev == Head(evq) IN
         /\ item' = [item EXCEPT ![ev.i].nres = @ + (IF ev.cb = "on_result" THEN 1 ELSE 0),
                                 ![ev.i].nerr = @ + (IF ev.cb = "on_error" THEN 1 ELSE 0),
                                 ![ev.i].thr = InvokerThread,
                                 ![ev.i].arg = ev.arg,
                                 ![ev.i].end = _execute_callback(raises),
                                 ![ev.i].after = (Raised # {})]
         /\ waiting' = SelectSeq(waiting, LAMBDA j : j # ev.i)
    /\ uistack' = IF modal THEN Append(uistack, "callback")
                  ELSE IF box THEN Append(uistack, "errorbox")
                  ELSE uistack
    /\ evq' = Tail(evq)
    /\ UNCHANGED <<workq, uirun>>
    /\ UNCHANGED besideBridge

\* the callback returns (possibly after a modal dialog)
Dispatch(modal) == ExecuteCallback(modal, FALSE, FALSE)

\* the callback raises an Exception before it returns
DispatchRaise(box) ==
    /\ Cardinality(Raised) < MaxRaise
    /\ ExecuteCallback(FALSE, TRUE, box)

\* the user closes the innermost dialog: exec() returns and the code that
\* showed it runs to its end
CloseDialog ==
    /\ uirun = 0
    /\ uistack # <<>>
    /\ uistack' = Pop(uistack)
    /\ UNCHANGED <<item, workq, evq, uirun, waiting>>
    /\ UNCHANGED besideBridge

\* other UI code (StartupController.on_create_clicked) shows a modal dialog
UiModal ==
    /\ uirun = 0
    /\ uistack = <<>>
    /\ Loops < MaxNest
    /\ uistack' = <<"handler">>
    /\ UNCHANGED <<item, workq, evq, uirun, waiting>>
    /\ UNCHANGED besideBridge

AdapterIdle ==
    /\ backend = "sqlite"
    /\ inited = FALSE
    /\ auth = "none"
    /\ tx_depth = 0
    /\ tx_conn = 0
    /\ conn = NoConn
    /\ db = {}
    /\ scopes = <<>>
    /\ exc = NoExc
    /\ last = LastNone
    /\ nextId = 1

InitBg == AdapterIdle /\ BridgeIdle /\ TokenIdle /\ ValIdle /\ FnIdle

NextBg ==
    \/ Submit
    \/ AddDone
    \/ \E i \in 1..MaxItems, out \in {"ok", "err"} : WorkerFinish(i, out)
    \/ \E i \in 1..MaxItems : InvokeCallbacks(i)
    \/ \E modal \in BOOLEAN : Dispatch(modal)
    \/ CloseDialog
    \/ UiModal

SpecBg == InitBg /\ [][NextBg]_vars

\* Worker threads keep running, run_bg returns, and the event loop that is
\* running on the UI thread delivers the events posted to it
BgFairness ==
    /\ \A i \in 1..MaxItems : WF_vars(InvokeCallbacks(i))
    /\ WF_vars(AddDone)
    /\ WF_vars(\E modal \in BOOLEAN : Dispatch(modal))

SpecBgFair == SpecBg /\ BgFairness

\* The bridge with callbacks that may raise
NextCb ==
    \/ (Len(item) < MaxCbItems /\ Submit)
    \/ AddDone
    \/ \E i \in 1..MaxCbItems, out \in {"ok", "err"} : WorkerFinish(i, out)
    \/ \E i \in 1..MaxCbItems : InvokeCallbacks(i)
    \/ \E modal \in BOOLEAN : Dispatch(modal)
    \/ \E box \in BOOLEAN : DispatchRaise(box)
    \/ CloseDialog
    \/ UiModal

SpecCb == InitBg /\ [][NextCb]_vars

\* the event loop delivers whether or not the callback it runs will raise
CbFairness ==
    /\ \A i \in 1..MaxCbItems : WF_vars(InvokeCallbacks(i))
    /\ WF_vars(AddDone)
    /\ WF_vars((\E modal \in BOOLEAN : Dispatch(modal)) \/ (\E box \in BOOLEAN : DispatchRaise(box)))

SpecCbFair == SpecCb /\ CbFairness

----------------------------------------------------------------------------
(* AzureADTokenManager: src/services/azure_ad_token_manager.py, and          *)
(* MssqlAdapter._connect_with_token_manager                                   *)

MaxNow == 60          \* the clock is explored up to this minute

ValidityMin == 60     \* expires_at = datetime.now() + timedelta(hours=1)
BufferMin == 5        \* is_expired: expires_at - timedelta(minutes=5)

\* minutes by which the clock advances in one step: an entry stored at s is
\* seen shortly before (s + 50) and exactly at (s + 55) the end of its validity
ClockSteps == {25, 30}

\* threading.main_thread().ident
_main_thread_id == "main"

\* texts of the error handed to handle_authentication_error
ErrorTexts == {"0x534", "authentication", "other"}

\* how pyodbc.connect of the interactive authentication ends
ConnectOutcomes == {"ok", "0x534", "other"}

\* plausible slip: the 5-minute buffer is left out
is_expired_nobuffer(token, t) == t >= token.expires_at

\* AuthToken.is_expired, with datetime.now() = t
is_expired(token, t) == t >= token.expires_at - BufferMin

\* cache_key in self._token_cache
InCache(c, k) == c[k] # NoToken

\* plausible slip: the thread check is applied to no mode
MustBeMain_off(d, t) == FALSE

\* authenticate_and_cache: the condition under which it raises RuntimeError
MustBeMain(d, t) == d.auth_type = "azure_ad_interactive" /\ t # _main_thread_id

\* plausible slip: the compatibility driver is tried after any failure
FallsBack_any(out) == out # "ok"

\* _perform_interactive_auth_and_cache: "0x534" in error_str
FallsBack(out) == out = "0x534"

\* the connection string built from a cached token, as the driver it names
_build_connection_string_with_token(d, token) ==
    IF token.access_token = "odbc_cached_driver17"
    THEN "ODBC Driver 17 for SQL Server"
    ELSE "ODBC Driver 18 for SQL Server"

\* plausible slip: a cached entry is used without the expiry check
get_connection_string_stale(c, d, t) ==
    IF InCache(c, cache_key(d)) THEN "return" ELSE "raise"

\* get_connection_string: what the call does once it holds the lock
get_connection_string(c, d, t) ==
    IF InCache(c, cache_key(d))
    THEN IF ~is_expired(c[cache_key(d)], t) THEN "return" ELSE "evict"
    ELSE "raise"

\* plausible slip: the whole cache is cleared
handle_authentication_error_clear(c, d) == [k \in Keys |-> NoToken]

\* handle_authentication_error: the cache it leaves
handle_authentication_error(c, d) == [c EXCEPT ![cache_key(d)] = NoToken]

\* _perform_non_interactive_auth_and_cache: return True
_perform_non_interactive_auth_and_cache == "True"

\* a call of thread t returns or raises
Complete(t, op, d, ret, n, first, hit) ==
    done' = [flip |-> ~done.flip, t |-> t, op |-> op, d |-> d, ret |-> ret,
             connects |-> n, first |-> first, hit |-> hit]

\* authenticate_and_cache(descriptor) is called: the thread check, and the
\* non-interactive branch, which returns at once without a connection
AuthenticateAndCache(t, d) ==
    /\ tpc[t] = Idle
    /\ IF MustBeMain(d, t)
       THEN /\ Complete(t, "authenticate_and_cache", d, "RuntimeError", 0, "none",
                        InCache(_token_cache, cache_key(d)))
            /\ UNCHANGED tpc
       ELSE IF d.auth_type = "azure_ad_interactive"
       THEN /\ tpc' = [tpc EXCEPT ![t] = [Idle EXCEPT !.op = "authenticate_and_cache",
                                                      !.d = d, !.step = "connect"]]
            /\ UNCHANGED done
       ELSE /\ Complete(t, "authenticate_and_cache", d,
                        _perform_non_interactive_auth_and_cache, 0, "none",
                        InCache(_token_cache, cache_key(d)))
            /\ UNCHANGED tpc
    /\ UNCHANGED <<_token_cache, _lock, now>>
    /\ UNCHANGED besideToken

\* _perform_interactive_auth_and_cache: pyodbc.connect (the browser window)
\* returns or raises; on success the entry is stored, without the lock
InteractiveConnect(t, out) ==
    /\ tpc[t].step = "connect"
    /\ LET d == tpc[t].d
           k == cache_key(tpc[t].d)
       IN  IF out = "ok"
           THEN /\ _token_cache' = [_token_cache EXCEPT
                                       ![k] = AuthToken("odbc_cached", now + ValidityMin)]
                /\ tpc' = [tpc EXCEPT ![t] = Idle]
                /\ Complete(t, "authenticate_and_cache", d, "True", 1, out,
                            InCache(_token_cache, k))
           ELSE IF FallsBack(out)
           THEN /\ tpc' = [tpc EXCEPT ![t].step = "fallback", ![t].first = out]
                /\ UNCHANGED <<_token_cache, done>>
           ELSE /\ tpc' = [tpc EXCEPT ![t] = Idle]
                /\ Complete(t, "authenticate_and_cache", d, "False", 1, out,
                            InCache(_token_cache, k))
                /\ UNCHANGED _token_cache
    /\ UNCHANGED <<_lock, now>>
    /\ UNCHANGED besideToken

\* _try_driver_17_fallback: the second pyodbc.connect returns or raises
Driver17Fallback(t, ok) ==
    /\ tpc[t].step = "fallback"
    /\ LET d == tpc[t].d
           k == cache_key(tpc[t].d)
       IN  /\ _token_cache' = IF ok
                              THEN [_token_cache EXCEPT
                                       ![k] = AuthToken("odbc_cached_driver17", now + ValidityMin)]
                              ELSE _token_cache
           /\ Complete(t, "authenticate_and_cache", d, IF ok THEN "True" ELSE "False",
                       2, tpc[t].first, InCache(_token_cache, k))
    /\ tpc' = [tpc EXCEPT ![t] = Idle]
    /\ UNCHANGED <<_lock, now>>
    /\ UNCHANGED besideToken

\* get_connection_string up to the point where it returns, raises, or has
\* found the entry expired and is about to delete it.  via = "adapter":
\* the caller is MssqlAdapter._connect_with_token_manager, which connects
\* with the string (ok: pyodbc.connect succeeds) and turns every exception
\* into DatabaseError.
Gcs(t, d, via, ok) ==
    /\ tpc[t] = Idle
    /\ _lock = "none"
    /\ LET k  == cache_key(d)
           br == get_connection_string(_token_cache, d, now)
           op == IF via = "direct" THEN "get_connection_string"
                 ELSE "_connect_with_token_manager"
       IN  IF br = "return"
           THEN /\ IF via = "direct"
                   THEN Complete(t, op, d,
                                 _build_connection_string_with_token(d, _token_cache[k]),
                                 0, "none", TRUE)
                   ELSE Complete(t, op, d, IF ok THEN "connection" ELSE "DatabaseError",
                                 1, "none", TRUE)
                /\ UNCHANGED <<tpc, _lock>>
           ELSE IF br = "raise"
           THEN /\ Complete(t, op, d, IF via = "direct" THEN "RuntimeError" ELSE "DatabaseError",
                            0, "none", FALSE)
                /\ UNCHANGED <<tpc, _lock>>
           ELSE /\ tpc' = [tpc EXCEPT ![t] = [Idle EXCEPT !.op = op, !.d = d, !.step = "del",
                                                          !.via = via, !.seen = _token_cache[k]]]
                /\ _lock' = t
                /\ UNCHANGED done
    /\ UNCHANGED <<_token_cache, now>>
    /\ UNCHANGED besideToken

GetConnectionString(t, d) == Gcs(t, d, "direct", TRUE)

ConnectWithTokenManager(t, d, ok) == Gcs(t, d, "adapter", ok)

\* get_connection_string, the expired branch: del self._token_cache[cache_key],
\* then raise RuntimeError and release the lock
GcsEvict(t) ==
    /\ tpc[t].step = "del"
    /\ _token_cache' = [_token_cache EXCEPT ![cache_key(tpc[t].d)] = NoToken]
    /\ _lock' = "none"
    /\ tpc' = [tpc EXCEPT ![t] = Idle]
    /\ Complete(t, tpc[t].op, tpc[t].d,
                IF tpc[t].via = "direct" THEN "RuntimeError" ELSE "DatabaseError",
                0, "none", TRUE)
    /\ UNCHANGED now
    /\ UNCHANGED besideToken

\* is_authenticated(descriptor)
IsAuthenticated(t, d) ==
    /\ tpc[t] = Idle
    /\ _lock = "none"
    /\ Complete(t, "is_authenticated", d,
                IF InCache(_token_cache, cache_key(d))
                THEN (IF ~is_expired(_token_cache[cache_key(d)], now) THEN "True" ELSE "False")
                ELSE "False",
                0, "none", InCache(_token_cache, cache_key(d)))
    /\ UNCHANGED <<_token_cache, _lock, now, tpc>>
    /\ UNCHANGED besideToken

\* handle_authentication_error(descriptor, error)
HandleAuthenticationError(t, d, text) ==
    /\ tpc[t] = Idle
    /\ _lock = "none"
    /\ _token_cache' = handle_authentication_error(_token_cache, d)
    /\ Complete(t, "handle_authentication_error", d,
                IF text \in {"0x534", "authentication"} THEN "RuntimeError" ELSE "error",
                0, "none", InCache(_token_cache, cache_key(d)))
    /\ UNCHANGED <<_lock, now, tpc>>
    /\ UNCHANGED besideToken

\* clear_cache(descriptor) / clear_cache()
ClearCache(t, d, all) ==
    /\ tpc[t] = Idle
    /\ _lock = "none"
    /\ _token_cache' = IF all THEN [k \in Keys |-> NoToken]
                       ELSE [_token_cache EXCEPT ![cache_key(d)] = NoToken]
    /\ Complete(t, "clear_cache", IF all THEN NoDescriptor ELSE d, "None", 0, "none",
                IF all THEN \E k \in Keys : InCache(_token_cache, k)
                ELSE InCache(_token_cache, cache_key(d)))
    /\ UNCHANGED <<_lock, now, tpc>>
    /\ UNCHANGED besideToken

\* time passes
Tick(delta) ==
    /\ now + delta <= MaxNow
    /\ now' = now + delta
    /\ UNCHANGED <<_token_cache, _lock, tpc, done>>
    /\ UNCHANGED besideToken

InitTok == AdapterIdle /\ BridgeIdle /\ TokenIdle /\ ValIdle /\ FnIdle

NextTok ==
    \/ \E t \in Threads, d \in Descriptors : AuthenticateAndCache(t, d)
    \/ \E t \in Threads, out \in ConnectOutcomes : InteractiveConnect(t, out)
    \/ \E t \in Threads, ok \in BOOLEAN : Driver17Fallback(t, ok)
    \/ \E t \in Threads, d \in Descriptors : GetConnectionString(t, d)
    \/ \E t \in Threads, d \in Descriptors, ok \in BOOLEAN : ConnectWithTokenManager(t, d, ok)
    \/ \E t \in Threads : GcsEvict(t)
    \/ \E t \in Threads, d \in Descriptors : IsAuthenticated(t, d)
    \/ \E t \in Threads, d \in Descriptors, text \in ErrorTexts : HandleAuthenticationError(t, d, text)
    \/ \E t \in Threads, d \in Descriptors, all \in BOOLEAN : ClearCache(t, d, all)
    \/ \E delta \in ClockSteps : Tick(delta)

SpecTok == InitTok /\ [][NextTok]_vars

----------------------------------------------------------------------------
(* SchemaValidator: src/services/schema_validator.py *)

\* in-scope table names: two that the expected schema has, one it has not
TableNames == {"cpd-a", "cpd-b", "cpd-x"}

ColNames == {"id", "val", "extra"}

\* TableSchema entries of self._expected_schema, as _parse_azure_sql leaves
\* them: the column type is what the regex keeps of the declaration (a
\* declared NVARCHAR(MAX) is kept as NVARCHAR)
_expected_schema ==
    [n \in {"cpd-a", "cpd-b"} |->
        [columns |-> [c \in {"id", "val"} |->
                         IF c = "id" THEN "INT"
                         ELSE IF n = "cpd-a" THEN "NVARCHAR(255)" ELSE "NVARCHAR"],
         primary_key |-> "id"]]

\* a row of INFORMATION_SCHEMA.COLUMNS: DATA_TYPE, CHARACTER_MAXIMUM_LENGTH,
\* NUMERIC_PRECISION, NUMERIC_SCALE (0 stands for NULL)
ColRow(t, len, prec, scale) == [data_type |-> t, max_length |-> len, precision |-> prec, scale |-> scale]

\* no row for the column
NoCol == ColRow("none", 0, 0, 0)

IntRow == ColRow("int", 0, 10, 0)
Nvarchar255Row == ColRow("nvarchar", 255, 0, 0)
NvarcharMaxRow == ColRow("nvarchar", -1, 0, 0)

\* str.upper() on the data types explored
Upper(s) == CASE s = "int" -> "INT" [] s = "nvarchar" -> "NVARCHAR" [] OTHER -> s

\* f"{type}({arg})" on the values explored
WithArg(base, arg) ==
    CASE base = "NVARCHAR" /\ arg = "255" -> "NVARCHAR(255)"
      [] base = "NVARCHAR" /\ arg = "MAX" -> "NVARCHAR(MAX)"
      [] OTHER -> base

\* _get_existing_tables: the type string rebuilt from a catalog row
type_str(row) ==
    IF Upper(row.data_type) \in {"NVARCHAR", "VARCHAR", "CHAR", "NCHAR"}
    THEN IF row.max_length # 0 /\ row.max_length # -1
         THEN WithArg(Upper(row.data_type), IF row.max_length = 255 THEN "255" ELSE "other")
         ELSE WithArg(Upper(row.data_type), "MAX")
    ELSE Upper(row.data_type)

\* a table of the remote database: its column rows (NoCol: no such column)
\* and the column of its PK_ constraint ("none": no such constraint)
RemoteTable(id, val, extra, pk) ==
    [rows |-> [c \in ColNames |-> IF c = "id" THEN id ELSE IF c = "val" THEN val ELSE extra],
     pk |-> pk]

NoTable == RemoteTable(NoCol, NoCol, NoCol, "absent")

\* remote tables explored: as expected by cpd-a, as expected by cpd-b,
\* wrong type, missing column, extra column, no primary key
RemoteTables ==
    { RemoteTable(IntRow, Nvarchar255Row, NoCol, "id"),
      RemoteTable(IntRow, NvarcharMaxRow, NoCol, "id"),
      RemoteTable(IntRow, IntRow, NoCol, "id"),
      RemoteTable(IntRow, NoCol, NoCol, "id"),
      RemoteTable(IntRow, Nvarchar255Row, IntRow, "id"),
      RemoteTable(IntRow, Nvarchar255Row, NoCol, "none") }

\* the gateway call of the reflection that raises: opening the transaction
\* scope, the table query, a per-table query, leaving the scope
Faults == {"none", "enter", "tables", "columns", "pk", "fk", "exit"}

\* table_rows of the catalog query
InScope(cat) == {n \in TableNames : cat[n] # NoTable}

\* _get_existing_tables: raises, or returns the dict of the tables found
_get_existing_tables(cat, f) ==
    IF f \in {"enter", "tables"} THEN [raised |-> TRUE, tables |-> << >>]
    ELSE IF InScope(cat) = {}
    THEN [raised |-> (f = "exit"), tables |-> << >>]
    ELSE IF f \in {"columns", "pk", "fk", "exit"} THEN [raised |-> TRUE, tables |-> << >>]
    ELSE [raised |-> FALSE,
          tables |-> [n \in InScope(cat) |->
                        [columns |-> [c \in {x \in ColNames : cat[n].rows[x] # NoCol} |->
                                         type_str(cat[n].rows[c])],
                         primary_key |-> cat[n].pk]]]

\* plausible slip: only the exact match is kept
_are_types_compatible_exact(expected_type, existing_type) ==
    expected_type = existing_type

\* plausible slip: the NVARCHAR rule is written for one direction only
_are_types_compatible_oneway(expected_type, existing_type) ==
    \/ expected_type = existing_type
    \/ (expected_type = "DATETIME2(3)" /\ existing_type = "DATETIME2")
    \/ (expected_type = "DATETIME2" /\ existing_type = "DATETIME2(3)")
    \/ (expected_type = "NVARCHAR" /\ existing_type = "NVARCHAR(MAX)")
    \/ (expected_type = "VARCHAR" /\ existing_type = "VARCHAR(MAX)")
    \/ (expected_type = "VARCHAR(MAX)" /\ existing_type = "VARCHAR")

\* _are_types_compatible
_are_types_compatible(expected_type, existing_type) ==
    \/ expected_type = existing_type
    \/ (expected_type = "DATETIME2(3)" /\ existing_type = "DATETIME2")
    \/ (expected_type = "DATETIME2" /\ existing_type = "DATETIME2(3)")
    \/ (expected_type = "NVARCHAR" /\ existing_type = "NVARCHAR(MAX)")
    \/ (expected_type = "NVARCHAR(MAX)" /\ existing_type = "NVARCHAR")
    \/ (expected_type = "VARCHAR" /\ existing_type = "VARCHAR(MAX)")
    \/ (expected_type = "VARCHAR(MAX)" /\ existing_type = "VARCHAR")

\* _compare_table_schema: the deviations of one table, as a set of entries
_compare_table_schema(expected, existing) ==
    LET expected_cols == DOMAIN expected.columns
        existing_cols == DOMAIN existing.columns
    IN  (IF expected_cols \ existing_cols # {}
         THEN { <<"Missing columns", expected_cols \ existing_cols>> } ELSE {})
        \cup
        (IF existing_cols \ expected_cols # {}
         THEN { <<"Extra columns", existing_cols \ expected_cols>> } ELSE {})
        \cup
        { <<"Column", c>> : c \in { x \in expected_cols \cap existing_cols :
              ~_are_types_compatible(expected.columns[x], existing.columns[x]) } }
        \cup
        (IF expected.primary_key # existing.primary_key
         THEN { <<"Primary key mismatch", existing.primary_key>> } ELSE {})

SchemaValidationResult(valid, missing, extra, deviations, empty, msg) ==
    [is_valid |-> valid, missing_tables |-> missing, extra_tables |-> extra,
     table_deviations |-> deviations, has_no_tables |-> empty, error_message |-> msg,
     returned |-> TRUE, raised |-> FALSE]

\* the call is left by the exception instead of a return statement
Propagates == [SchemaValidationResult(FALSE, {}, {}, << >>, FALSE, "none") EXCEPT !.raised = TRUE]

\* plausible slip: the try block starts after the reflection's scope is open
Catches_inside(f) == f # "enter"

\* validate_schema: except Exception as e (the gateway raises DatabaseError
\* subclasses and driver errors, all of them Exception instances)
Catches(f) == TRUE

\* plausible slip: the empty remote is diffed like any other
IsEmptyRemote_never(existing_tables) == FALSE

\* validate_schema: if not existing_tables
IsEmptyRemote(existing_tables) == DOMAIN existing_tables = {}

\* plausible slip: the per-table deviations are left out of the verdict
IsValid_tablesonly(missing_tables, extra_tables, deviating) ==
    missing_tables = {} /\ extra_tables = {}

\* validate_schema: is_valid = not missing_tables and not extra_tables and
\* not table_deviations
IsValid(missing_tables, extra_tables, deviating) ==
    missing_tables = {} /\ extra_tables = {} /\ deviating = {}

\* validate_schema
validate_schema(cat, f) ==
    LET got == _get_existing_tables(cat, f)
        existing_tables == got.tables
        expected_table_names == DOMAIN _expected_schema
        existing_table_names == DOMAIN existing_tables
        missing_tables == expected_table_names \ existing_table_names
        extra_tables == existing_table_names \ expected_table_names
        deviating == { n \in expected_table_names \cap existing_table_names :
                         _compare_table_schema(_expected_schema[n], existing_tables[n]) # {} }
        table_deviations == [n \in deviating |->
                               _compare_table_schema(_expected_schema[n], existing_tables[n])]
    IN  IF got.raised
        THEN IF Catches(f)
             THEN SchemaValidationResult(FALSE, {}, {}, << >>, FALSE, "str(e)")
             ELSE Propagates
        ELSE IF IsEmptyRemote(existing_tables)
        THEN SchemaValidationResult(FALSE, expected_table_names, {}, << >>, TRUE, "none")
        ELSE SchemaValidationResult(IsValid(missing_tables, extra_tables, deviating),
                                    missing_tables, extra_tables, table_deviations,
                                    FALSE, "none")

\* calls of validate_schema explored
MaxCalls == 2

\* the remote database after the reflection: the four statements are SELECTs
\* on INFORMATION_SCHEMA views and the scope commits nothing
AfterReflection(cat) == cat

\* validator.validate_schema() is called; f is the gateway call that raises
\* during this call, if any
ValidateSchema(f) ==
    /\ validations < MaxCalls
    /\ result' = validate_schema(catalog, f)
    /\ previous' = result
    /\ fault' = f
    /\ validations' = validations + 1
    /\ catalog' = AfterReflection(catalog)
    /\ UNCHANGED deploy
    /\ UNCHANGED besideVal

\* a validator over any remote schema
InitVal ==
    /\ AdapterIdle /\ BridgeIdle /\ TokenIdle /\ FnIdle
    /\ catalog \in [TableNames -> RemoteTables \cup {NoTable}]
    /\ fault = "none"
    /\ result = NoResult
    /\ previous = NoResult
    /\ validations = 0
    /\ deploy = NoDeploy

NextVal == \E f \in Faults : ValidateSchema(f)

SpecVal == InitVal /\ [][NextVal]_vars

----------------------------------------------------------------------------
(* Type compatibility of the diff (src/services/schema_validator.py) *)

\* type strings compared: declared types as the regex of
\* _parse_table_definition keeps them, reflected types as _get_existing_tables
\* rebuilds them
TypeStrings ==
    {"INT", "VARCHAR", "VARCHAR(MAX)", "NVARCHAR", "NVARCHAR(255)", "NVARCHAR(MAX)",
     "DATETIME2", "DATETIME2(3)"}

\* a table with the one column "val" of the given type
OneColumn(t) == [columns |-> [c \in {"val"} |-> t], primary_key |-> "id"]

\* _compare_table_schema is applied to two tables that differ at most in the
\* type of one column; the relation is evaluated in both directions
CompareTableSchema ==
    /\ ~typecheck.called
    /\ typecheck' =
          [typecheck EXCEPT
             !.called = TRUE,
             !.compatible = _are_types_compatible(typecheck.expected_type, typecheck.existing_type),
             !.reverse = _are_types_compatible(typecheck.existing_type, typecheck.expected_type),
             !.deviations = _compare_table_schema(OneColumn(typecheck.expected_type),
                                                  OneColumn(typecheck.existing_type))]
    /\ UNCHANGED <<built, mapped, mig>>
    /\ UNCHANGED besideFn

InitTypes ==
    /\ AdapterIdle /\ BridgeIdle /\ TokenIdle /\ ValIdle
    /\ AppIdle
    /\ built = NoBuilt
    /\ mapped = NoMapped
    /\ mig = NoMig
    /\ typecheck \in {[NoTypeCheck EXCEPT !.expected_type = e, !.existing_type = x] :
                        e \in TypeStrings, x \in TypeStrings}

NextTypes == CompareTableSchema

SpecTypes == InitTypes /\ [][NextTypes]_vars

----------------------------------------------------------------------------
(* Schema migrations (src/services/migration_service.py) *)

\* runs of run_migrations explored in one behaviour
MaxRuns == 2

TARGET_SCHEMA_VERSION == "1.0.0"

\* values of meta.schema_version explored: the target, the baseline marker,
\* the empty string, a newer version, and no row at all
StoredVersions == {TARGET_SCHEMA_VERSION, "0.0.0", "", "2.5.0", "missing"}

\* check_version: the version it returns for what the query produced
check_version(value, queryRaises) ==
    IF queryRaises THEN "0.0.0"
    ELSE IF value = "missing" THEN "0.0.0"
    ELSE value

\* plausible slip: the failure of the script is swallowed and commit() runs
AfterScriptFailure_commit == "commit"

\* run_migrations: an exception of execute_script leaves the try block for
\* the except clause
AfterScriptFailure == "rollback"

\* one method of the storage adapter is called
MigCalled(m, name) == [m EXCEPT !.calls = Append(@, name)]

\* the call ends: it returns ret or raises
MigEnds(m, ret, raised) == [m EXCEPT !.pc = "idle", !.ret = ret, !.raised = raised]

\* run_migrations is called
RunMigrations ==
    /\ mig.pc = "idle"
    /\ mig.runs < MaxRuns
    /\ mig' = [mig EXCEPT !.pc = "check", !.found = "none", !.calls = <<>>, !.ret = "none",
                          !.raised = "none", !.failed = "none", !.runs = @ + 1]
    /\ UNCHANGED <<typecheck, built, mapped>>
    /\ UNCHANGED besideFn

\* check_version and the two tests on its result; out: connect() raises,
\* the query raises, or the query returns the rows
CheckVersion(out) ==
    /\ mig.pc = "check"
    /\ mig' =
          IF out = "connect_raises"
          THEN MigEnds(MigCalled(mig, "connect"), "none", "connect")
          ELSE LET current_version == check_version(mig.stored, out = "query_raises")
                   m == [MigCalled(MigCalled(mig, "connect"), "query") EXCEPT !.found = current_version]
               IN  IF current_version = TARGET_SCHEMA_VERSION
                   THEN MigEnds(m, current_version, "none")
                   ELSE IF current_version \notin {"0.0.0", ""}
                   THEN MigEnds(m, "none", "MigrationBlockedError")
                   ELSE [m EXCEPT !.pc = "connect"]
    /\ UNCHANGED <<typecheck, built, mapped>>
    /\ UNCHANGED besideFn

\* self._storage_adapter.connect() before the migration
MigConnect(ok) ==
    /\ mig.pc = "connect"
    /\ mig' = IF ok THEN [MigCalled(mig, "connect") EXCEPT !.pc = "begin"]
              ELSE MigEnds(MigCalled(mig, "connect"), "none", "connect")
    /\ UNCHANGED <<typecheck, built, mapped>>
    /\ UNCHANGED besideFn

\* self._storage_adapter.begin(), outside the try block
MigBegin(ok) ==
    /\ mig.pc = "begin"
    /\ mig' = IF ok THEN [MigCalled(mig, "begin") EXCEPT !.pc = "execute_script"]
              ELSE MigEnds(MigCalled(mig, "begin"), "none", "begin")
    /\ UNCHANGED <<typecheck, built, mapped>>
    /\ UNCHANGED besideFn

\* self._storage_adapter.execute_script(script)
MigExecuteScript(ok) ==
    /\ mig.pc = "execute_script"
    /\ mig' = IF ok THEN [MigCalled(mig, "execute_script") EXCEPT !.pc = "commit"]
              ELSE [MigCalled(mig, "execute_script") EXCEPT !.pc = AfterScriptFailure,
                                                            !.failed = "execute_script"]
    /\ UNCHANGED <<typecheck, built, mapped>>
    /\ UNCHANGED besideFn

\* self._storage_adapter.commit(): the baseline script has set the version
MigCommit(ok) ==
    /\ mig.pc = "commit"
    /\ mig' = IF ok
              THEN [MigEnds(MigCalled(mig, "commit"), TARGET_SCHEMA_VERSION, "none") EXCEPT
                       !.stored = TARGET_SCHEMA_VERSION]
              ELSE [MigCalled(mig, "commit") EXCEPT !.pc = "rollback", !.failed = "commit"]
    /\ UNCHANGED <<typecheck, built, mapped>>
    /\ UNCHANGED besideFn

\* the except clause: rollback(), then "raise"; a rollback that raises
\* replaces the exception caught
MigRollback(ok) ==
    /\ mig.pc = "rollback"
    /\ mig' = MigEnds(MigCalled(mig, "rollback"), "none", IF ok THEN mig.failed ELSE "rollback")
    /\ UNCHANGED <<typecheck, built, mapped>>
    /\ UNCHANGED besideFn

InitMig ==
    /\ AdapterIdle /\ BridgeIdle /\ TokenIdle /\ ValIdle
    /\ AppIdle
    /\ typecheck = NoTypeCheck
    /\ built = NoBuilt
    /\ mapped = NoMapped
    /\ mig \in {[NoMig EXCEPT !.stored = v] : v \in StoredVersions}

NextMig ==
    \/ RunMigrations
    \/ \E out \in {"connect_raises", "query_raises", "rows"} : CheckVersion(out)
    \/ \E ok \in BOOLEAN : MigConnect(ok)
    \/ \E ok \in BOOLEAN : MigBegin(ok)
    \/ \E ok \in BOOLEAN : MigExecuteScript(ok)
    \/ \E ok \in BOOLEAN : MigCommit(ok)
    \/ \E ok \in BOOLEAN : MigRollback(ok)

SpecMig == InitMig /\ [][NextMig]_vars

----------------------------------------------------------------------------
(* Connection string assembly (src/services/mssql_connection.py,
   src/services/db_adapters/mssql_adapter.py) *)

\* the six authentication modes with a branch of their own
SupportedModes ==
    {"windows", "sql", "azure_ad_interactive", "azure_ad_password",
     "azure_ad_integrated", "azure_ad_device_code"}

\* auth_type values explored: "" stands for the falsy values (None and ""),
\* "SQL" for a mode written in capitals, "kerberos" for an unknown mode
AuthTypes == SupportedModes \cup {"", "SQL", "kerberos"}

\* str.lower() on the values explored
Lower(a) == IF a = "SQL" THEN "sql" ELSE a

\* mode.startswith("azure_ad")
StartsWithAzureAd(mode) ==
    mode \in {"azure_ad_interactive", "azure_ad_password",
              "azure_ad_integrated", "azure_ad_device_code"}

\* build_connect_kwargs: the keys _build_conn_str reads ("" for a key that
\* is not set; port is None in the descriptor _build_conn_str passes)
build_connect_kwargs(d) ==
    LET auth_type == Lower(d.auth_type)
    IN [Server |-> d.server,
        Database |-> d.database,
        Trusted_Connection |->
            IF auth_type \in SupportedModes \ {"windows"} THEN "" ELSE "yes",
        UID |->
            IF auth_type \in {"sql", "azure_ad_interactive", "azure_ad_device_code",
                              "azure_ad_password"}
            THEN d.username ELSE "",
        Authentication |->
            CASE auth_type = "azure_ad_interactive" -> "ActiveDirectoryInteractive"
              [] auth_type = "azure_ad_integrated"  -> "ActiveDirectoryIntegrated"
              [] auth_type = "azure_ad_device_code" -> "ActiveDirectoryDeviceCode"
              [] auth_type = "azure_ad_password"    -> "ActiveDirectoryPassword"
              [] OTHER -> "",
        Authority |-> d.authority]

\* parts.append(...) under a condition
Part(cond, p) == IF cond THEN <<p>> ELSE <<>>

\* _build_conn_str: the parts joined by ";" (the function has no raise
\* statement and build_connect_kwargs has none either)
_build_conn_str(cfg) ==
    LET kwargs == build_connect_kwargs(cfg)
        mode == Lower(cfg.auth_type)
        uid == Part(kwargs.UID # "", "UID=u")
    IN <<"DRIVER={ODBC Driver 18 for SQL Server}">>
       \o Part(kwargs.Server # "", "SERVER=srv")
       \o Part(kwargs.Database # "", "DATABASE=db")
       \o (IF mode = "windows" \/ kwargs.Trusted_Connection = "yes"
           THEN <<"Trusted_Connection=yes">>
           ELSE IF mode = "sql" THEN uid
           ELSE IF mode = "azure_ad_interactive"
           THEN <<"Authentication=ActiveDirectoryInteractive">> \o uid
           ELSE IF mode = "azure_ad_password"
           THEN <<"Authentication=ActiveDirectoryPassword">> \o uid
           ELSE IF mode = "azure_ad_integrated"
           THEN <<"Authentication=ActiveDirectoryIntegrated">>
           ELSE IF mode = "azure_ad_device_code"
           THEN <<"Authentication=ActiveDirectoryDeviceCode">> \o uid
           ELSE <<"Trusted_Connection=yes">>)
       \o Part(StartsWithAzureAd(mode) /\ cfg.authority # "", "Authority=tenant")
       \o <<"Encrypt=yes">>
       \o (IF StartsWithAzureAd(mode) THEN <<"TrustServerCertificate=yes">>
                                      ELSE <<"TrustServerCertificate=no">>)

\* _build_conn_str is applied to the configuration drawn
BuildConnStr ==
    /\ ~built.called
    /\ built' = [built EXCEPT !.called = TRUE,
                              !.raised = FALSE,
                              !.kwargs = build_connect_kwargs(built),
                              !.conn_str = _build_conn_str(built)]
    /\ UNCHANGED <<typecheck, mapped, mig>>
    /\ UNCHANGED besideFn

InitConn ==
    /\ AdapterIdle /\ BridgeIdle /\ TokenIdle /\ ValIdle
    /\ AppIdle
    /\ typecheck = NoTypeCheck
    /\ mapped = NoMapped
    /\ mig = NoMig
    /\ built \in {[NoBuilt EXCEPT !.auth_type = a, !.username = u, !.server = s,
                                  !.database = d, !.authority = t] :
                    a \in AuthTypes, u \in {"", "u"}, s \in {"", "srv"},
                    d \in {"", "db"}, t \in {"", "tenant"}}

NextConn == BuildConnStr

SpecConn == InitConn /\ [][NextConn]_vars

----------------------------------------------------------------------------
(* Classification of remote errors (src/services/database_gateway.py) *)

\* SQLSTATE values explored ("none": sqlstate is None)
SqlStates == {"none", "28000", "42000"}

\* error numbers explored (0: code is None); 40501 is one of the listed
\* transient codes, 49919 lies in the transient range, 18456 is the
\* login-failure number carried as the code, not in the message
Codes == {0, 40501, 49919, 18456}

\* signal phrases a message may contain, in any combination
Phrases ==
    {"Login failed", "FA004", "18456", "permission", "does not exist",
     "service is busy", "timeout"}

\* map_mssql_error is applied to the error drawn
MapMssqlError ==
    /\ ~mapped.called
    /\ mapped' = [mapped EXCEPT !.called = TRUE, !.cls = map_mssql_error(mapped.feat)]
    /\ UNCHANGED <<typecheck, built, mig>>
    /\ UNCHANGED besideFn

InitMap ==
    /\ AdapterIdle /\ BridgeIdle /\ TokenIdle /\ ValIdle
    /\ AppIdle
    /\ typecheck = NoTypeCheck
    /\ built = NoBuilt
    /\ mig = NoMig
    /\ mapped \in {[NoMapped EXCEPT !.feat = MssqlFeat(s, c, p)] :
                     s \in SqlStates, c \in Codes, p \in SUBSET Phrases}

NextMap == MapMssqlError

SpecMap == InitMap /\ [][NextMap]_vars

\* op() of execute on a short-lived connection when pyodbc.connect raises
\* the error f on every attempt: raw from _connect on the direct path,
\* wrapped into DatabaseError("Connection failed: ...") by
\* _connect_with_token_manager
ConnectFails(f, direct) == { Attempt(FALSE, 1, 0, FALSE, OpExc(direct, f, TRUE)) }

\* the class raised and the attempts made by _with_retry(op)
PathOutcome(f, direct) ==
    LET r == CHOOSE x \in _with_retry(ConnectFails(f, direct), DefaultAttempts, 0,
                                      DelayInitMs, RetryAcc) : TRUE
    IN  [cls |-> r.res, attempts |-> r.attempts]

\* the same connect-time error is run through execute on both paths
CompareConnectPaths ==
    /\ ~mapped.compared
    /\ mapped' = [mapped EXCEPT !.compared = TRUE,
                                !.direct = PathOutcome(mapped.feat, TRUE),
                                !.token = PathOutcome(mapped.feat, FALSE)]
    /\ UNCHANGED <<typecheck, built, mig>>
    /\ UNCHANGED besideFn

NextPaths == MapMssqlError \/ CompareConnectPaths

SpecPaths == InitMap /\ [][NextPaths]_vars

----------------------------------------------------------------------------
(* deploy_schema (src/services/schema_validator.py) *)

\* longest script explored, in lines
MaxLines == 5

\* lines of azure.sql explored
Lines == {"A", "B -- c", "GO", "go", "-- c", ""}

\* re.sub(r'--.*$', '', ..., flags=re.MULTILINE) on one line
RemoveComment(l) == CASE l = "B -- c" -> "B " [] l = "-- c" -> "" [] OTHER -> l

\* str.strip()
Strip(l) == IF l = "B " THEN "B" ELSE l

\* str.upper()
UpperLine(l) == IF l = "go" THEN "GO" ELSE l

\* str.strip() of a statement kept as its lines: blank lines at both ends go
RECURSIVE StripStatement(_)
StripStatement(st) ==
    IF st = << >> THEN st
    ELSE IF Head(st) = "" THEN StripStatement(Tail(st))
    ELSE IF st[Len(st)] = "" THEN StripStatement(SubSeq(st, 1, Len(st) - 1))
    ELSE st

\* _split_sql_statements: the loop over the lines from line i on
RECURSIVE SplitFrom(_, _, _, _)
SplitFrom(lines, i, statements, current_statement) ==
    IF i > Len(lines)
    THEN IF StripStatement(current_statement) # << >>
         THEN Append(statements, StripStatement(current_statement))
         ELSE statements
    ELSE LET line == Strip(RemoveComment(lines[i]))
         IN  IF UpperLine(line) = "GO"
             THEN SplitFrom(lines, i + 1,
                            IF StripStatement(current_statement) # << >>
                            THEN Append(statements, StripStatement(current_statement))
                            ELSE statements,
                            << >>)
             ELSE SplitFrom(lines, i + 1, statements, Append(current_statement, line))

\* _split_sql_statements
_split_sql_statements(sql_content) == SplitFrom(sql_content, 1, << >>, << >>)

\* deploy_schema: if statement and not statement.startswith('--')
IsExecuted(statement) == StripStatement(statement) # << >> /\ Head(StripStatement(statement)) # "-- c"

\* gateway.execute(statement) outside a transaction: the statement is applied
\* and the call returns; the call raises before the statement ran; the
\* statement ran on the autocommit connection and the call raises afterwards
ExecuteOutcomes == {"ok", "raised", "raised_after_apply"}

\* plausible slip: the loop goes on with the next batch after a failure
OnExecuteError_continue(d) == d

\* deploy_schema: an exception of gateway.execute leaves the loop and the
\* method
OnExecuteError(d) == [d EXCEPT !.outcome = "raised"]

\* deploy_schema is called: the script is read and split
DeployStart ==
    /\ deploy.outcome = "none"
    /\ deploy' = [deploy EXCEPT !.statements = _split_sql_statements(deploy.script),
                                !.outcome = "running"]
    /\ UNCHANGED <<catalog, fault, result, previous, validations>>
    /\ UNCHANGED besideVal

\* one iteration of the loop over the statements: statement k is passed to
\* gateway.execute (or skipped by the filter), or the loop ends
DeployStep(out) ==
    /\ deploy.outcome = "running"
    /\ LET k == Len(deploy.executed) + 1
       IN  IF k > Len(deploy.statements)
           THEN deploy' = [deploy EXCEPT !.outcome = "returned"]
           ELSE LET called == [deploy EXCEPT !.executed = Append(@, k),
                                             !.depths = @ \cup {tx_depth},
                                             !.applied = IF out \in {"ok", "raised_after_apply"}
                                                         THEN @ \cup {k} ELSE @]
                IN  deploy' = IF ~IsExecuted(deploy.statements[k])
                              THEN [deploy EXCEPT !.executed = Append(@, 0)]
                              ELSE IF out = "ok" THEN called
                              ELSE OnExecuteError(called)
    /\ UNCHANGED <<catalog, fault, result, previous, validations>>
    /\ UNCHANGED besideVal

InitDeploy ==
    /\ AdapterIdle /\ BridgeIdle /\ TokenIdle /\ FnIdle
    /\ catalog = << >>
    /\ fault = "none"
    /\ result = NoResult
    /\ previous = NoResult
    /\ validations = 0
    /\ deploy \in {[NoDeploy EXCEPT !.script = sc] :
                     sc \in UNION {[1..n -> Lines] : n \in 0..MaxLines}}

NextDeploy ==
    \/ DeployStart
    \/ \E out \in ExecuteOutcomes : DeployStep(out)

SpecDeploy == InitDeploy /\ [][NextDeploy]_vars

----------------------------------------------------------------------------
(* Opening a remote project: src/services/app_context.py and               *)
(* src/app/controllers/startup_controller.py                               *)

\* AppContext.close
AppClose(a) == [a EXCEPT !._gateway = "none", !._project = "none"]

\* _validate_remote_schema: the exception it raises for a result ("none":
\* it returns)
_validate_remote_schema(r) ==
    IF r.is_valid THEN "none"
    ELSE IF r.error_message # "none" THEN "Schema validation error"
    ELSE IF r.has_no_tables THEN "SCHEMA_DEPLOYMENT_REQUIRED"
    ELSE "SCHEMA_DEVIATIONS_DETECTED"

\* plausible slip: the exception is raised before the pending data is stored
load_project_raisefirst(a, p, hc, r) ==
    LET closed == [AppClose(a) EXCEPT !._project = p]
    IN  IF ~hc THEN [closed EXCEPT !.error = "health check"]
        ELSE IF _validate_remote_schema(r) = "none"
        THEN [closed EXCEPT !._gateway = "mssql", !.error = "none"]
        ELSE [closed EXCEPT !.error = _validate_remote_schema(r)]

\* load_project for the project p in storage mode mssql: the context it leaves;
\* hc: the health check passes, r: the result of validate_schema
load_project(a, p, hc, r) ==
    LET closed == [AppClose(a) EXCEPT !._project = p]
    IN  IF ~hc THEN [closed EXCEPT !.error = "health check"]
        ELSE IF _validate_remote_schema(r) = "none"
        THEN [closed EXCEPT !._gateway = "mssql", !.error = "none"]
        ELSE [closed EXCEPT !._pending_schema_validation = TRUE,
                            !.error = _validate_remote_schema(r)]

\* open_project: work() and the callback run_bg delivers for its outcome;
\* on_err opens the schema dialog for the two schema outcomes
OpenProject(hc, f) ==
    /\ app.stage = "start"
    /\ LET a == load_project(app, "p", hc, validate_schema(catalog, f))
       IN  app' = [a EXCEPT !.stage =
                      IF a.error = "none" THEN "open"
                      ELSE IF a.error \in {"SCHEMA_DEPLOYMENT_REQUIRED", "SCHEMA_DEVIATIONS_DETECTED"}
                              /\ a._pending_schema_validation
                      THEN "dialog"
                      ELSE "failed"]
    /\ UNCHANGED valVars
    /\ UNCHANGED besideApp

\* _handle_schema_validation_error: the choice made in the dialog
Choose(choice) ==
    /\ app.stage = "dialog"
    /\ app' = CASE choice = "deploy" -> [app EXCEPT !.stage = "deploying"]
                 [] choice = "proceed" ->
                      [app EXCEPT !.stage = "proceeding", !._pending_schema_validation = FALSE]
                 [] OTHER ->
                      [app EXCEPT !.stage = "cancelled", !._pending_schema_validation = FALSE]
    /\ UNCHANGED valVars
    /\ UNCHANGED besideApp

\* the remote after a successful run of the deployment script: the expected
\* tables that were missing exist as declared
Deployed(cat) ==
    [n \in TableNames |->
        IF n \in DOMAIN _expected_schema /\ cat[n] = NoTable
        THEN RemoteTable(IntRow, IF n = "cpd-a" THEN Nvarchar255Row ELSE NvarcharMaxRow,
                         NoCol, "id")
        ELSE cat[n]]

\* _deploy_schema_and_continue: deploy_work and the callback for its outcome
DeploySchemaAndContinue(ok) ==
    /\ app.stage = "deploying"
    /\ app' = IF ok THEN [app EXCEPT !.stage = "deployed", !._pending_schema_validation = FALSE]
              ELSE [app EXCEPT !.stage = "deploy_failed", !._pending_schema_validation = FALSE]
    /\ catalog' = IF ok THEN Deployed(catalog) ELSE catalog
    /\ UNCHANGED <<fault, result, previous, validations, deploy>>
    /\ UNCHANGED besideApp

\* _proceed_with_project_loading: work() and the callback for its outcome
ProceedWithProjectLoading(hc, f) ==
    /\ app.stage = "proceeding"
    /\ LET a == load_project([app EXCEPT !._pending_schema_validation = FALSE], "p", hc,
                             validate_schema(catalog, f))
       IN  app' = [a EXCEPT !.stage = IF a.error = "none" THEN "proceeded" ELSE "proceed_failed"]
    /\ UNCHANGED valVars
    /\ UNCHANGED besideApp

InitApp ==
    /\ AdapterIdle /\ BridgeIdle /\ TokenIdle /\ FnIdle
    /\ catalog \in [TableNames -> RemoteTables \cup {NoTable}]
    /\ fault = "none"
    /\ result = NoResult
    /\ previous = NoResult
    /\ validations = 0
    /\ deploy = NoDeploy

NextApp ==
    \/ \E hc \in BOOLEAN, f \in Faults : OpenProject(hc, f)
    \/ \E choice \in {"deploy", "proceed", "cancel"} : Choose(choice)
    \/ \E ok \in BOOLEAN : DeploySchemaAndContinue(ok)
    \/ \E hc \in BOOLEAN, f \in Faults : ProceedWithProjectLoading(hc, f)

SpecApp == InitApp /\ [][NextApp]_vars

----------------------------------------------------------------------------
(* The credential cache and the context driven call by call:               *)
(* src/services/secure_credential_manager.py, src/services/app_context.py  *)

\* the encryption backends _initialize_encryption can select
Backends == {"dpapi", "keyring", "fernet", "xor"}

\* passwords handed to store_password ("": the empty string)
Passwords == {"", "a", "b"}

\* self._encrypt_func(password): the bytes kept in _session_credentials. The
\* keyring backend returns the session key, which is the same for every
\* project path; the other backends return a ciphertext of the password
_encrypt_func(b, pw) ==
    IF b = "keyring" THEN [key |-> "cpd_session_pid", data |-> "none"]
    ELSE [key |-> b, data |-> pw]

\* _encrypt_keyring: keyring.set_password("CPD_Database", session_key, data)
KeyringAfterEncrypt(b, path, pw, k) ==
    IF b = "keyring" THEN [owner |-> path, password |-> pw] ELSE k

\* self._decrypt_func(encrypted_password): the password ("none": it raises;
\* _decrypt_keyring raises ValueError when the keyring has no entry)
_decrypt_func(b, c, k) ==
    IF b = "keyring" THEN k.password ELSE c.data

\* get_password(project_path): the value returned ("none": None), whether it
\* raises RuntimeError, and _session_credentials after the call
get_password(creds, b, k, path) ==
    IF creds[path] = NoCipher
    THEN [ret |-> "none", raised |-> FALSE, creds |-> creds]
    ELSE IF _decrypt_func(b, creds[path], k) = "none"
    THEN [ret |-> "none", raised |-> TRUE, creds |-> [creds EXCEPT ![path] = NoCipher]]
    ELSE [ret |-> _decrypt_func(b, creds[path], k), raised |-> FALSE, creds |-> creds]

\* clear_password(project_path): _session_credentials.pop(project_path, None)
clear_password(creds, path) == [creds EXCEPT ![path] = NoCipher]

\* a call on the credential manager
CredCall(op, path) == [NoCall_ctx EXCEPT !.op = op, !.path = path]

StorePassword(path, pw) ==
    /\ IF pw = ""
       THEN UNCHANGED <<_session_credentials, keyring, stored>>
       ELSE /\ _session_credentials' =
                  [_session_credentials EXCEPT ![path] = _encrypt_func(crypto, pw)]
            /\ keyring' = KeyringAfterEncrypt(crypto, path, pw, keyring)
            /\ stored' = [stored EXCEPT ![path] = pw]
    /\ ctxcall' = CredCall("store_password", path)
    /\ UNCHANGED <<crypto, app>>
    /\ UNCHANGED valVars
    /\ UNCHANGED besideCtx

GetPassword(path) ==
    /\ LET g == get_password(_session_credentials, crypto, keyring, path)
       IN  /\ _session_credentials' = g.creds
           /\ ctxcall' = [CredCall("get_password", path) EXCEPT
                             !.ret = g.ret,
                             !.raised = IF g.raised THEN "RuntimeError" ELSE "none"]
    /\ UNCHANGED <<crypto, keyring, stored, app>>
    /\ UNCHANGED valVars
    /\ UNCHANGED besideCtx

ClearPassword(path) ==
    /\ _session_credentials' = clear_password(_session_credentials, path)
    /\ stored' = [stored EXCEPT ![path] = "none"]
    /\ ctxcall' = CredCall("clear_password", path)
    /\ UNCHANGED <<crypto, keyring, app>>
    /\ UNCHANGED valVars
    /\ UNCHANGED besideCtx

\* cleanup_credentials at process exit: clear_all_passwords, which deletes
\* the keyring entry of each value still in _session_credentials (for the
\* other backends the values name no keyring entry), then drops the manager
CleanupCredentials ==
    /\ keyring' = IF crypto = "keyring"
                     /\ \E x \in RemotePaths : _session_credentials[x] # NoCipher
                  THEN NoEntry ELSE keyring
    /\ _session_credentials' = [x \in RemotePaths |-> NoCipher]
    /\ stored' = [x \in RemotePaths |-> "none"]
    /\ ctxcall' = CredCall("cleanup_credentials", "none")
    /\ UNCHANGED <<crypto, app>>
    /\ UNCHANGED valVars
    /\ UNCHANGED besideCtx

\* AppContext.close: clear_password for a project in storage mode mssql,
\* then the gateway and the project are dropped
CtxClose ==
    /\ _session_credentials' =
          IF app._project \in RemotePaths
          THEN clear_password(_session_credentials, app._project)
          ELSE _session_credentials
    /\ stored' = IF app._project \in RemotePaths
                 THEN [stored EXCEPT ![app._project] = "none"] ELSE stored
    /\ app' = AppClose(app)
    /\ ctxcall' = [NoCall_ctx EXCEPT !.op = "close", !.path = app._project,
                                     !.pending_before = app._pending_schema_validation]
    /\ UNCHANGED <<crypto, keyring>>
    /\ UNCHANGED valVars
    /\ UNCHANGED besideCtx

\* _session_credentials after the close() load_project starts with
ClosedCredentials ==
    IF app._project \in RemotePaths
    THEN clear_password(_session_credentials, app._project)
    ELSE _session_credentials

\* load_project(p) gets as far as _validate_remote_schema
ValidationReached(p, hc) ==
    /\ p \in RemotePaths
    /\ ~get_password(ClosedCredentials, crypto, keyring, p).raised
    /\ hc

\* load_project for a project in storage mode sqlite: the context it leaves
load_local(a, p, hc) ==
    LET closed == [AppClose(a) EXCEPT !._project = p]
    IN  IF hc THEN [closed EXCEPT !._gateway = "sqlite", !.error = "none"]
        ELSE [closed EXCEPT !.error = "health check"]

\* AppContext.load_project(p) on an existing settings file: close(), then
\* for a remote project the password is read from the credential cache and
\* passed to MssqlAdapter.init, the health check runs and the schema is
\* validated
CtxLoadProject(p, hc, f) ==
    LET cur == app._project
        closed_creds == ClosedCredentials
        closed_stored == IF cur \in RemotePaths
                         THEN [stored EXCEPT ![cur] = "none"] ELSE stored
    IN  IF p \in LocalPaths
        THEN /\ app' = load_local(app, p, hc)
             /\ _session_credentials' = closed_creds
             /\ stored' = closed_stored
             /\ ctxcall' = [NoCall_ctx EXCEPT !.op = "load_project", !.path = p,
                               !.raised = app'.error,
                               !.pending_before = app._pending_schema_validation]
        ELSE LET g == get_password(closed_creds, crypto, keyring, p)
             IN  /\ app' = IF g.raised
                           THEN [AppClose(app) EXCEPT !._project = p, !.error = "RuntimeError"]
                           ELSE load_project(app, p, hc, validate_schema(catalog, f))
                 /\ _session_credentials' = g.creds
                 /\ stored' = closed_stored
                 /\ ctxcall' = [NoCall_ctx EXCEPT !.op = "load_project", !.path = p,
                                   !.raised = app'.error,
                                   !.password = IF g.raised THEN "none" ELSE g.ret,
                                   !.ret = IF g.raised THEN "none" ELSE "init",
                                   !.pending_before = app._pending_schema_validation]

LoadProject(p, hc, f) ==
    /\ CtxLoadProject(p, hc, f)
    /\ result' = IF ValidationReached(p, hc) THEN validate_schema(catalog, f) ELSE NoResult
    /\ UNCHANGED <<crypto, keyring>>
    /\ UNCHANGED <<catalog, fault, previous, validations, deploy>>
    /\ UNCHANGED besideCtx

\* plausible slip: the pending data is cleared in a finally clause
ClearsPending_finally(ok) == TRUE

\* handle_schema_deployment reaches "self._pending_schema_validation = None"
\* only when deploy_schema returned
ClearsPending(ok) == ok

\* AppContext.handle_schema_deployment; ok: deploy_schema returns normally
HandleSchemaDeployment(ok) ==
    /\ IF ~app._pending_schema_validation
       THEN /\ ctxcall' = [NoCall_ctx EXCEPT !.op = "handle_schema_deployment",
                                             !.raised = "ValueError"]
            /\ UNCHANGED <<app, catalog>>
       ELSE /\ ctxcall' = [NoCall_ctx EXCEPT !.op = "handle_schema_deployment",
                                             !.deploys = 1, !.pending_before = TRUE,
                                             !.raised = IF ok THEN "none" ELSE "deploy_schema"]
            /\ app' = IF ClearsPending(ok)
                      THEN [app EXCEPT !._pending_schema_validation = FALSE] ELSE app
            /\ catalog' = IF ok THEN Deployed(catalog) ELSE catalog
    /\ UNCHANGED <<fault, result, previous, validations, deploy>>
    /\ UNCHANGED <<crypto, _session_credentials, keyring, stored>>
    /\ UNCHANGED besideCtx

\* AppContext.clear_pending_schema_validation
ClearPendingSchemaValidation ==
    /\ app' = [app EXCEPT !._pending_schema_validation = FALSE]
    /\ ctxcall' = [NoCall_ctx EXCEPT !.op = "clear_pending_schema_validation",
                                     !.pending_before = app._pending_schema_validation]
    /\ UNCHANGED <<crypto, _session_credentials, keyring, stored>>
    /\ UNCHANGED valVars
    /\ UNCHANGED besideCtx

\* the remote with no cpd- table, with the declared tables, and with one
\* declared table missing
EmptyCatalog == [n \in TableNames |-> NoTable]
CtxCatalogs ==
    {EmptyCatalog, Deployed(EmptyCatalog),
     [Deployed(EmptyCatalog) EXCEPT !["cpd-b"] = NoTable]}

\* validate_schema lets no gateway failure through, or one while reading the tables
CtxFaults == {"none", "tables"}

InitCtx ==
    /\ AdapterIdle /\ BridgeIdle /\ TokenIdle
    /\ typecheck = NoTypeCheck /\ built = NoBuilt /\ mapped = NoMapped /\ mig = NoMig
    /\ app = NoApp
    /\ ctxcall = NoCall_ctx
    /\ crypto \in Backends
    /\ _session_credentials = [x \in RemotePaths |-> NoCipher]
    /\ keyring = NoEntry
    /\ stored = [x \in RemotePaths |-> "none"]
    /\ catalog \in CtxCatalogs
    /\ fault = "none"
    /\ result = NoResult
    /\ previous = NoResult
    /\ validations = 0
    /\ deploy = NoDeploy

NextCtx ==
    \/ \E path \in RemotePaths, pw \in Passwords : StorePassword(path, pw)
    \/ \E path \in RemotePaths : GetPassword(path)
    \/ \E path \in RemotePaths : ClearPassword(path)
    \/ CleanupCredentials
    \/ CtxClose
    \/ \E p \in RemotePaths \cup LocalPaths, hc \in BOOLEAN, f \in CtxFaults : LoadProject(p, hc, f)
    \/ \E ok \in BOOLEAN : HandleSchemaDeployment(ok)
    \/ ClearPendingSchemaValidation

SpecCtx == InitCtx /\ [][NextCtx]_vars

----------------------------------------------------------------------------
(* Properties of the adapters *)

Closes(c) == HistCount(c.hist, {"close", "close_failed"})
Commits(c) == HistCount(c.hist, {"commit", "commit_failed"})

\* C1: MssqlAdapter - once an exception has propagated out of the outermost
\* transaction() scope (whatever the depth it was raised at, and also when a
\* rollback call failed on the way), _tx_depth is 0, _tx_conn is None and
\* close() has been called exactly once on the connection opened for the scope.
C1_ExceptionExitResetsAdapter ==
    (backend = "mssql" /\ last.op = "tx_exit_exc" /\ scopes = <<>>)
        => /\ tx_depth = 0
           /\ tx_conn = 0
           /\ Closes(conn) = 1

\* an exception that left two nested scopes, the outermost rollback having failed
C1_Witness ==
    /\ backend = "mssql"
    /\ last.op = "tx_exit_exc"
    /\ scopes = <<>>
    /\ exc.through >= 2
    /\ ~last.rolled
    /\ tx_depth = 0

\* C2: MssqlAdapter - entering transaction() at depth 0 opens exactly one
\* connection (autocommit off) and nested entries open none; every
\* execute/query_all/query_one issued while a scope is open runs on that
\* connection without connecting; nothing is committed while a scope is still
\* open; the normal exit of the outermost scope commits once, then closes.
C2_OneConnectionPerTransaction ==
    backend = "mssql" =>
        /\ (last.op = "tx_enter" /\ last.res = "ok" /\ last.depth = 0)
              => (last.connects = 1 /\ tx_conn = conn.id /\ conn.open /\ ~conn.autocommit)
        /\ (last.op = "tx_enter" /\ last.depth > 0)
              => (last.connects = 0 /\ tx_conn = last.conn)
        /\ scopes # <<>>
              => (tx_conn # 0 /\ tx_conn = conn.id /\ conn.open /\ Commits(conn) = 0)
        /\ (last.op \in {"execute", "query_all", "query_one"} /\ scopes # <<>>)
              => (last.connects = 0 /\ last.conn = conn.id)
        /\ (last.op = "tx_exit" /\ last.depth = 1 /\ last.res = "ok")
              => conn.hist = <<"commit", "close">>
        /\ (last.op = "tx_exit" /\ last.depth > 1) => Commits(conn) = 0

\* a transaction with a nested scope and statements, committed and closed
C2_Witness ==
    /\ backend = "mssql"
    /\ last.op = "tx_exit"
    /\ last.depth = 1
    /\ last.res = "ok"
    /\ conn.hist = <<"commit", "close">>
    /\ db = {2, 4}
    /\ nextId = 5

\* C3: MssqlAdapter.execute/query_all outside a transaction - two Transient
\* failures followed by a success return after exactly 3 connection attempts;
\* Transient failures on every attempt end after exactly 3 connection attempts
\* with sleeps of 0.5s then 1.0s (none after the last attempt) and a
\* TransientError is raised.
C3_RetryThreeAttemptsBackoff ==
    (backend = "mssql" /\ last.op \in {"execute", "query_all", "query_one"} /\ last.conn = 0)
        => /\ (last.res = "ok" /\ Len(last.sleeps) = 2)
                 => (last.attempts = 3 /\ last.connects = 3 /\ last.sleeps = <<500, 1000>>)
           /\ last.res = "TransientError"
                 => (/\ last.attempts = 3
                     /\ last.connects = 3
                     /\ last.sleeps = <<500, 1000>>
                     /\ exc.cls = "TransientError")

\* a write that succeeded on the third attempt
C3_Witness ==
    /\ last.op = "execute"
    /\ last.conn = 0
    /\ last.res = "ok"
    /\ last.attempts = 3
    /\ last.sleeps = <<500, 1000>>
    /\ db # {}

\* C4: MssqlAdapter - when the first attempt of an operation fails with an error
\* classified Auth, Permission, NotFound, Timeout or Operational, exactly one
\* attempt is made, nothing is slept, and that classified error is raised.
C4_NonTransientNotRetried ==
    (backend = "mssql"
     /\ last.first \in {"AuthError", "PermissionError", "NotFoundError",
                        "TimeoutError", "OperationalError"})
        => /\ last.attempts = 1
           /\ last.sleeps = <<>>
           /\ last.res = last.first
           /\ exc.cls = last.first

\* a statement whose only attempt timed out
C4_Witness ==
    /\ last.op \in {"execute", "query_all", "query_one"}
    /\ last.first = "TimeoutError"
    /\ last.attempts = 1
    /\ exc.cls = "TimeoutError"

\* C5: every exception that leaves execute, query_all, query_one, health_check
\* or the entry of transaction() because the driver failed is an instance of
\* one of the nine taxonomy subclasses.
C5_DriverFailuresAreClassified ==
    (exc # NoExc /\ exc.origin = "driver"
     /\ last.op \in {"execute", "query_all", "query_one", "health_check", "tx_enter"})
        => exc.cls \in Taxonomy

\* the outermost scope started the connection's transaction (nothing was left
\* open on the connection by an earlier failed release)
CleanStart == backend = "sqlite" => scopes[1].entry = 1

InnerExitByException == exc # NoExc /\ Len(scopes) > 1 /\ Len(scopes') < Len(scopes)

OutermostNormalExit ==
    exc = NoExc /\ Len(scopes) = 1 /\ scopes' = <<>> /\ exc' = NoExc

C6_Step ==
    /\ InnerExitByException
          => /\ db' = db
             /\ conn'.hist = conn.hist
             /\ conn'.open = conn.open
             /\ tx_conn' = tx_conn
             /\ last'.rolled
                   => Stmts(conn'.log) = Stmts(SubSeq(conn.log, 1, Top(scopes).entry))
    /\ (OutermostNormalExit /\ CleanStart) => db' = db \cup Stmts(conn.log)

C7_OriginalAlwaysReraised ==
    last.op = "tx_exit_exc"
        => (last.excOut = last.excIn /\ tx_depth = last.depth - 1)

----------------------------------------------------------------------------
(* Properties of the background bridge *)

\* number of callbacks of item i that _execute_callback has started
Called(i) == item[i].nres + item[i].nerr

\* _execute_callback starts a callback of item i in this step
CallbackStarts(i) == item'[i].nres + item'[i].nerr > item[i].nres + item[i].nerr

C8_Safety ==
    \A i \in Items :
        /\ item[i].out = "none" => (item[i].nres = 0 /\ item[i].nerr = 0)
        /\ item[i].out = "ok" => (item[i].nres <= 1 /\ item[i].nerr = 0)
        /\ item[i].out = "err" => (item[i].nerr <= 1 /\ item[i].nres = 0)
        /\ Called(i) > 0 => (item[i].thr = "ui" /\ item[i].arg = Payload(i))

C8_Delivered == \A i \in Items : item[i].out # "none" => Called(i) = 1

\* C8: run_bg with both callbacks, any number of work items (fewer or more
\* than the 4 workers), any interleaving - an item whose fn returned gets
\* on_result at most once and never on_error, an item whose fn raised gets
\* on_error at most once, with that exception, and never on_result, every
\* callback runs on the UI thread, and while the event loop keeps running
\* every item whose fn has finished gets its callback (again and again all
\* finished items have had exactly one callback).
C8_ExactlyOneCallbackOnUi == []C8_Safety /\ []<>C8_Delivered

\* more items than workers, one of them failed, every one called back once
C8_Witness ==
    /\ Len(item) > MaxWorkers
    /\ \A i \in Items : Called(i) = 1
    /\ \E i \in Items : item[i].out = "err" /\ item[i].nerr = 1
    /\ \E i \in Items : item[i].out = "ok" /\ item[i].nres = 1

C9_Step ==
    \A i \in Items :
        CallbackStarts(i) => (/\ item'[i].thr = "ui"
                              /\ uirun = 0
                              /\ uistack = <<>>)

\* C9: a bridge callback is started only by the queued slot call: on the UI
\* thread, never while the UI thread is inside run_bg, and never while a
\* bridge callback or other UI-thread code is in the middle of executing.
C9_QueuedNeverReentrant == [][C9_Step]_vars

C10_Step ==
    \A i \in Items :
        (CallbackStarts(i) /\ i <= MaxWatch) => (waiting # <<>> /\ Head(waiting) = i)

\* C10: (for the watched items) when the fn of A finished before the fn of B,
\* the callback of A starts before the callback of B - the callback that
\* starts is the one of the item that finished first among those waiting.
C10_CompletionOrder == [][C10_Step]_vars

\* no slot call is queued for item i
NoneQueued(i) == \A k \in 1..Len(evq) : evq[k].i # i

C11_Safety ==
    \A i \in Items :
        /\ item[i].end # "escaped"
        /\ item[i].end = "caught" => (Called(i) = 1 /\ NoneQueued(i))

\* C11: a callback that raises (an Exception) is caught in
\* _execute_callback - the exception never leaves the slot, the item gets no
\* second callback (neither runs nor is queued), and while the event loop
\* keeps running every item whose fn has finished still gets its callback.
C11_CallbackExceptionContained == []C11_Safety /\ []<>C8_Delivered

\* a callback raised and was caught, and after that the callback of another
\* item was delivered
C11_Witness ==
    \E i, j \in Items :
        /\ i # j
        /\ item[i].end = "caught"
        /\ item[j].after /\ Called(j) = 1

----------------------------------------------------------------------------
(* Properties of the token manager *)

\* this step is the return or the raise of a token-manager call
Completes == done'.flip # done.flip

\* the cache holds an entry for d that has not reached the end of its
\* validity (five minutes before expires_at)
HoldsUnexpired(c, d, t) ==
    /\ c[cache_key(d)] # NoToken
    /\ t < c[cache_key(d)].expires_at - BufferMin

\* no key enters the cache in this step
NothingStored == \A k \in Keys : _token_cache[k] = NoToken => _token_cache'[k] = NoToken

C12_Step ==
    (Completes /\ done'.op \in {"get_connection_string", "_connect_with_token_manager"}) =>
        /\ done'.ret \notin {"RuntimeError", "DatabaseError"}
              => HoldsUnexpired(_token_cache, done'.d, now)
        /\ done'.connects > 0 => HoldsUnexpired(_token_cache, done'.d, now)
        /\ ~HoldsUnexpired(_token_cache, done'.d, now) =>
              /\ done'.ret = (IF done'.op = "get_connection_string"
                              THEN "RuntimeError" ELSE "DatabaseError")
              /\ done'.connects = 0
              /\ NothingStored

\* C12: get_connection_string(d) returns a connection string only when the
\* cache holds an unexpired entry for d.cache_key(); when it does not, the
\* call raises RuntimeError, makes no driver connection and stores nothing;
\* MssqlAdapter._connect_with_token_manager then raises DatabaseError and
\* never calls pyodbc.connect.
C12_NoTokenNoConnection == [][C12_Step]_vars

\* the adapter tried to connect for an interactive descriptor that was never
\* authenticated: DatabaseError, no connection attempt
C12_Witness ==
    /\ done.op = "_connect_with_token_manager"
    /\ done.d.auth_type = "azure_ad_interactive"
    /\ ~done.hit
    /\ done.ret = "DatabaseError"
    /\ done.connects = 0
    /\ \A k \in Keys : _token_cache[k] = NoToken

C13_Step ==
    /\ \A t \in Threads \ {"main"} :
          tpc'[t].d.auth_type = "azure_ad_interactive" => tpc'[t].step \notin {"connect", "fallback"}
    /\ (Completes /\ done'.op = "authenticate_and_cache") =>
          /\ (done'.d.auth_type = "azure_ad_interactive" /\ done'.t # "main") =>
                /\ done'.ret = "RuntimeError"
                /\ done'.connects = 0
                /\ _token_cache' = _token_cache
          /\ done'.ret = "RuntimeError" =>
                (done'.d.auth_type = "azure_ad_interactive" /\ done'.t # "main")

\* C13: authenticate_and_cache(d) for the browser-interactive mode on a
\* thread other than the main thread raises RuntimeError, with no driver
\* connection attempted (the thread never reaches pyodbc.connect) and the
\* token cache left as it was; in every other case (interactive on the main
\* thread, any other mode on any thread) the call does not raise it.
C13_InteractiveOnlyOnMainThread == [][C13_Step]_vars

\* a worker thread called it for an interactive descriptor while the cache
\* held an entry
C13_Witness ==
    /\ done.op = "authenticate_and_cache"
    /\ done.t = "bg"
    /\ done.d.auth_type = "azure_ad_interactive"
    /\ done.ret = "RuntimeError"
    /\ \E k \in Keys : _token_cache[k] # NoToken

C14_Step ==
    (Completes /\ done'.op = "authenticate_and_cache") =>
        /\ done'.ret = "True" => HoldsUnexpired(_token_cache', done'.d, now')
        /\ done'.ret = "False" => NothingStored

\* C14: when authenticate_and_cache(d) returns True, in any federated mode,
\* the cache holds an unexpired entry for d.cache_key() at that moment (so
\* is_authenticated(d) and get_connection_string(d) called next succeed);
\* when it returns False no entry has been added.
C14_TrueMeansCached == [][C14_Step]_vars

C15_Step ==
    /\ (Completes /\ done'.op = "handle_authentication_error") =>
          /\ _token_cache'[cache_key(done'.d)] = NoToken
          /\ \A k \in Keys \ {cache_key(done'.d)} : _token_cache'[k] = _token_cache[k]
          /\ done'.ret \in {"RuntimeError", "error"}
    /\ \A k \in Keys :
          (_token_cache[k] = NoToken /\ _token_cache'[k] # NoToken) =>
              /\ Completes
              /\ done'.op = "authenticate_and_cache"
              /\ done'.ret = "True"
              /\ cache_key(done'.d) = k
    /\ (Completes /\ done'.op = "get_connection_string"
                  /\ _token_cache[cache_key(done'.d)] = NoToken) => done'.ret = "RuntimeError"

\* C15: handle_authentication_error(d, e) leaves no entry for d.cache_key(),
\* leaves the entries of the other keys as they were, and ends by raising
\* (RuntimeError or e itself), never by returning; a key that has no entry
\* gets one only in the step in which authenticate_and_cache for that key
\* returns True, and get_connection_string raises while there is none.
C15_EvictAndRaise == [][C15_Step]_vars

\* the error handler evicted the entry of one descriptor while another
\* descriptor's entry was cached
C15_Witness ==
    /\ done.op = "handle_authentication_error"
    /\ done.hit
    /\ _token_cache[cache_key(done.d)] = NoToken
    /\ \E k \in Keys : _token_cache[k] # NoToken

\* the call that completes in this step read the cache in this step (it did
\* not continue from an earlier read)
ReadsNow == \A t \in Threads : tpc[t].step # "del"

C16_Step ==
    /\ (Completes /\ done'.op = "get_connection_string" /\ ReadsNow) =>
          \* a string is returned exactly while now < expires_at - 5 min
          /\ done'.ret # "RuntimeError" <=> HoldsUnexpired(_token_cache, done'.d, now)
          /\ _token_cache' = _token_cache
    /\ \A t \in Threads, d \in Descriptors :
          \* the call that finds the entry at or after that instant goes on to
          \* delete it: it returns nothing now ...
          (/\ tpc[t] = Idle /\ tpc'[t].op = "get_connection_string" /\ tpc'[t].d = d)
              => /\ _token_cache[cache_key(d)] # NoToken
                 /\ now >= _token_cache[cache_key(d)].expires_at - BufferMin
                 /\ tpc'[t].step = "del"
                 /\ ~Completes
    /\ \A t \in Threads :
          \* ... and then removes the entry and raises
          (tpc[t].op = "get_connection_string" /\ tpc[t].step = "del" /\ tpc'[t] = Idle)
              => /\ _token_cache'[cache_key(tpc[t].d)] = NoToken
                 /\ done'.ret = "RuntimeError"
                 /\ now >= tpc[t].seen.expires_at - BufferMin
    /\ (Completes /\ done'.op = "is_authenticated") =>
          /\ done'.ret = "True" <=> HoldsUnexpired(_token_cache, done'.d, now)
          /\ _token_cache' = _token_cache

\* C16: an entry counts as valid exactly while now < expires_at - 5 minutes:
\* get_connection_string returns a string when it reads such an entry and
\* in no other case; when it reads an entry at or after that instant it
\* deletes the entry of that key and raises RuntimeError, building no
\* string from it; is_authenticated answers True exactly for a valid entry
\* and never changes the cache.
C16_TokenLifecycle == [][C16_Step]_vars

\* get_connection_string found an entry whose validity had ended exactly at
\* that minute, removed it and raised
C16_Witness ==
    /\ done.op = "get_connection_string"
    /\ done.hit
    /\ done.ret = "RuntimeError"
    /\ _token_cache[cache_key(done.d)] = NoToken
    /\ now = ValidityMin - BufferMin

C17_Step ==
    \A t \in Threads :
        \* while t holds the lock, no other thread changes the cache
        /\ (_lock = t /\ _token_cache' # _token_cache) => tpc'[t] # tpc[t]
        \* the lazy eviction deletes the entry it found expired, not one stored since
        /\ (tpc[t].step = "del" /\ tpc'[t] = Idle) =>
               _token_cache[cache_key(tpc[t].d)] = tpc[t].seen

\* C17: every update of the token cache is made under the manager's lock, so
\* while one thread is inside a locked section no other thread changes the
\* cache, and the lazy eviction in get_connection_string deletes the expired
\* entry it read, never an entry that authentication has stored meanwhile.
C17_CacheOnlyUnderLock == [][C17_Step]_vars

C18_Step ==
    /\ (Completes /\ done'.op = "authenticate_and_cache"
                  /\ done'.d.auth_type = "azure_ad_interactive" /\ done'.t = "main") =>
          /\ done'.connects \in {1, 2}
          /\ done'.connects = 2 <=> done'.first = "0x534"
          /\ done'.ret \in {"True", "False"}
          /\ done'.ret = "False" => _token_cache' = _token_cache
          /\ (done'.connects = 2 /\ done'.ret = "True") =>
                _token_cache'[cache_key(done'.d)].access_token = "odbc_cached_driver17"
    \* the compatibility driver is tried only after the first attempt failed
    \* with 0x534, and the call ends with that second attempt
    /\ \A t \in Threads :
          /\ (tpc'[t].step = "fallback" /\ tpc[t].step # "fallback")
                => (tpc[t].step = "connect" /\ tpc'[t].first = "0x534")
          /\ tpc[t].step = "fallback" => (tpc'[t].step = "fallback" \/ tpc'[t] = Idle)

\* C18: an interactive authenticate_and_cache makes one driver connection
\* attempt, and a second one (driver 17) exactly when the first failed with
\* an error whose text contains 0x534, never a third; it ends by returning
\* True or False, never by raising; when it returns False (also after a
\* failed fallback) the cache is as it was before.
C18_OneShotDriver17Fallback == [][C18_Step]_vars

\* the first attempt failed with 0x534, the fallback failed too: False, two
\* connection attempts, no entry
C18_Witness ==
    /\ done.op = "authenticate_and_cache"
    /\ done.first = "0x534"
    /\ done.connects = 2
    /\ done.ret = "False"
    /\ _token_cache[cache_key(done.d)] = NoToken

----------------------------------------------------------------------------
(* Properties of the schema validator *)

\* the catalog query ran and returned no in-scope table
CatalogEmpty == InScope(catalog) = {} /\ fault \notin {"enter", "tables"}

\* the shape of the result for an empty remote database
EmptyShape ==
    /\ result.has_no_tables
    /\ ~result.is_valid
    /\ result.error_message = "none"
    /\ result.missing_tables = DOMAIN _expected_schema

\* C19 as stated: whenever the catalog query returns zero in-scope tables the
\* result has has_no_tables = true, is_valid = false, no error_message and
\* every expected table in missing_tables, and has_no_tables is true in no
\* other case.
C19_AsStated ==
    result.returned =>
        /\ CatalogEmpty => EmptyShape
        /\ result.has_no_tables => CatalogEmpty

\* C19, amended: the same, provided the reflection's transaction scope is
\* left without an error after the catalog query returned zero tables; when
\* leaving the scope raises, the result is the error shape instead
\* (error_message set, has_no_tables = false).
C19_EmptyRemoteShape ==
    result.returned =>
        /\ (CatalogEmpty /\ fault # "exit") => EmptyShape
        /\ result.has_no_tables => (CatalogEmpty /\ fault # "exit")
        /\ (CatalogEmpty /\ fault = "exit") =>
              (result.error_message # "none" /\ ~result.has_no_tables)

\* an empty remote database was validated
C19_Witness ==
    /\ result.returned
    /\ InScope(catalog) = {}
    /\ fault = "none"
    /\ result.has_no_tables
    /\ result.missing_tables = {"cpd-a", "cpd-b"}

\* the four conditions of C20, with the fourth as stated and as amended
SetError == result.error_message # "none"
AnyDifference ==
    \/ result.missing_tables # {}
    \/ result.extra_tables # {}
    \/ DOMAIN result.table_deviations # {}

HowMany(conds) == Cardinality({i \in 1..Len(conds) : conds[i]})

\* C20 as stated: exactly one of - error_message set; has_no_tables true;
\* is_valid true; some of missing_tables, extra_tables, table_deviations
\* non-empty - holds of every result.
C20_AsStated ==
    result.returned =>
        HowMany(<<SetError, result.has_no_tables, result.is_valid, AnyDifference>>) = 1

\* C20, amended: exactly one of - error_message set; has_no_tables true;
\* is_valid true; has_no_tables false and some of missing_tables,
\* extra_tables, table_deviations non-empty - holds of every result (the
\* result for an empty remote also lists the expected tables as missing,
\* and only that result does both).
C20_FourShapes ==
    result.returned =>
        /\ HowMany(<<SetError, result.has_no_tables, result.is_valid,
                     ~result.has_no_tables /\ AnyDifference>>) = 1
        /\ (result.has_no_tables /\ AnyDifference) =>
              (result.missing_tables = DOMAIN _expected_schema /\ result.extra_tables = {}
               /\ DOMAIN result.table_deviations = {})

\* a remote with all expected tables, one of them deviating: the fourth shape
C20_Witness ==
    /\ result.returned
    /\ ~result.is_valid /\ ~result.has_no_tables /\ result.error_message = "none"
    /\ result.missing_tables = {} /\ result.extra_tables = {}
    /\ DOMAIN result.table_deviations # {}

\* a gateway call of the reflection raised during the last call
GatewayRaised ==
    \/ fault \in {"enter", "tables", "exit"}
    \/ (fault \in {"columns", "pk", "fk"} /\ InScope(catalog) # {})

\* C21: validate_schema never raises; when a gateway call of the reflection
\* raises (opening the transaction scope, the tables query, a per-table
\* query), the result has error_message set, is_valid = false,
\* has_no_tables = false and empty missing_tables, extra_tables and
\* table_deviations.
C21_ErrorsBecomeResults ==
    result.returned =>
        /\ ~result.raised
        /\ GatewayRaised =>
              /\ result.error_message # "none"
              /\ ~result.is_valid
              /\ ~result.has_no_tables
              /\ result.missing_tables = {}
              /\ result.extra_tables = {}
              /\ DOMAIN result.table_deviations = {}

\* the scope could not be opened, or a per-table query failed on a remote
\* that has tables, and the call returned the error result
C21_Witness ==
    /\ result.returned /\ ~result.raised
    /\ \/ fault = "enter"
       \/ (fault = "pk" /\ InScope(catalog) # {})
    /\ result.error_message = "str(e)"

\* the declared type and the remote's type are the same, or one is the
\* unqualified NVARCHAR and the other NVARCHAR(MAX)
SameType(declared, remote) ==
    declared = remote \/ {declared, remote} = {"NVARCHAR", "NVARCHAR(MAX)"}

\* the remote's in-scope tables, their columns (with compatible types) and
\* their primary keys equal the expected schema
Compliant(cat) ==
    /\ InScope(cat) = DOMAIN _expected_schema
    /\ \A n \in DOMAIN _expected_schema :
          /\ {c \in ColNames : cat[n].rows[c] # NoCol} = DOMAIN _expected_schema[n].columns
          /\ \A c \in DOMAIN _expected_schema[n].columns :
                SameType(_expected_schema[n].columns[c], type_str(cat[n].rows[c]))
          /\ cat[n].pk = _expected_schema[n].primary_key

NoDifference(r) ==
    r.missing_tables = {} /\ r.extra_tables = {} /\ DOMAIN r.table_deviations = {}

TwoCalls == previous.returned /\ result.returned

----------------------------------------------------------------------------
(* Properties of the type compatibility *)

TypePair == {typecheck.expected_type, typecheck.existing_type}

\* reflexive, symmetric; NVARCHAR and NVARCHAR(MAX) compatible without a
\* deviation; INT and VARCHAR incompatible with a deviation for the column
C23_Common ==
    /\ typecheck.expected_type = typecheck.existing_type => typecheck.compatible
    /\ typecheck.compatible = typecheck.reverse
    /\ TypePair = {"NVARCHAR", "NVARCHAR(MAX)"} =>
          (typecheck.compatible /\ typecheck.deviations = {})
    /\ TypePair = {"INT", "VARCHAR"} =>
          (~typecheck.compatible /\ typecheck.deviations = {<<"Column", "val">>})

\* C23 as stated: the relation is reflexive and symmetric, NVARCHAR vs
\* NVARCHAR(MAX) is compatible and gives no deviation, INT vs VARCHAR is
\* incompatible and gives a deviation entry for the column, and a
\* length-qualified type and its maximum-length variant (NVARCHAR(255) vs
\* NVARCHAR(MAX)) are compatible.
C23_AsStated ==
    typecheck.called =>
        /\ C23_Common
        /\ TypePair = {"NVARCHAR(255)", "NVARCHAR(MAX)"} => typecheck.compatible

\* C23, amended: the same, except that the compatible pairs of different
\* types are exactly the unqualified type with its MAX variant (NVARCHAR vs
\* NVARCHAR(MAX), VARCHAR vs VARCHAR(MAX)) and DATETIME2 vs DATETIME2(3); a
\* length-qualified type and its maximum-length variant are incompatible and
\* give a deviation entry for the column.
C23_TypeCompatibility ==
    typecheck.called =>
        /\ C23_Common
        /\ typecheck.compatible <=>
              \/ typecheck.expected_type = typecheck.existing_type
              \/ TypePair \in {{"NVARCHAR", "NVARCHAR(MAX)"}, {"VARCHAR", "VARCHAR(MAX)"},
                              {"DATETIME2", "DATETIME2(3)"}}
        /\ typecheck.compatible <=> typecheck.deviations = {}
        /\ TypePair = {"NVARCHAR(255)", "NVARCHAR(MAX)"} =>
              typecheck.deviations = {<<"Column", "val">>}

\* NVARCHAR(MAX) was declared and NVARCHAR found, and no deviation reported
C23_Witness ==
    /\ typecheck.called
    /\ typecheck.expected_type = "NVARCHAR(MAX)" /\ typecheck.existing_type = "NVARCHAR"
    /\ typecheck.compatible /\ typecheck.reverse
    /\ typecheck.deviations = {}

----------------------------------------------------------------------------
(* Properties of deploy_schema *)

\* the script's GO lines, with the positions before the first and after the
\* last line
Separators(sc) == {i \in 1..Len(sc) : sc[i] \in {"GO", "go"}} \cup {0, Len(sc) + 1}

\* the text of the line without its comment ("" when nothing is left)
Text(l) == CASE l = "A" -> "A" [] l = "B -- c" -> "B" [] OTHER -> ""

\* the batches of the script that hold some text, as <<first, last>> line
\* positions between two neighbouring separators
NonEmptyBatches(sc) ==
    {b \in Separators(sc) \X Separators(sc) :
        /\ b[1] < b[2]
        /\ \A i \in Separators(sc) : ~(b[1] < i /\ i < b[2])
        /\ \E i \in (b[1] + 1)..(b[2] - 1) : Text(sc[i]) # ""}

\* the k-th of them in file order
Batch(sc, k) ==
    CHOOSE b \in NonEmptyBatches(sc) :
        Cardinality({c \in NonEmptyBatches(sc) : c[1] < b[1]}) = k - 1

SelectText(st) == SelectSeq(st, LAMBDA l : l # "")

\* the statements are the non-empty batches in file order, each called once
\* and in that order, outside any transaction; after a failure of batch k the
\* batches before it are applied, no later batch has been passed to the
\* gateway and the error has left deploy_schema
C24_State ==
    /\ deploy.outcome # "none" =>
          /\ Len(deploy.statements) = Cardinality(NonEmptyBatches(deploy.script))
          /\ \A k \in 1..Len(deploy.statements) :
                SelectText(deploy.statements[k]) =
                    SelectText([i \in 1..(Batch(deploy.script, k)[2] - Batch(deploy.script, k)[1] - 1)
                                   |-> Text(deploy.script[Batch(deploy.script, k)[1] + i])])
    /\ \A i \in 1..Len(deploy.executed) : deploy.executed[i] = i
    /\ deploy.depths \subseteq {0}
    /\ deploy.outcome = "returned" =>
          /\ Len(deploy.executed) = Len(deploy.statements)
          /\ deploy.applied = 1..Len(deploy.statements)
    /\ deploy.outcome = "raised" =>
          /\ Len(deploy.executed) \in 1..Len(deploy.statements)
          /\ 1..(Len(deploy.executed) - 1) \subseteq deploy.applied
          /\ deploy.applied \subseteq 1..Len(deploy.executed)
    /\ deploy.outcome = "running" => deploy.applied = 1..Len(deploy.executed)

\* C24: deploy_schema executes the non-empty batches of the script one at a
\* time, in file order, each through gateway.execute outside any
\* transaction; if batch k fails, batches 1..k-1 remain applied, the batches
\* after k are never executed and the error propagates to the caller.
C24_DeployInOrderNoRollback ==
    /\ []C24_State
    /\ [][deploy.outcome = "raised" => deploy' = deploy]_vars
    /\ [][deploy.applied \subseteq deploy'.applied]_vars

\* the second of three batches failed: the first stays applied, the third
\* was not executed
C24_Witness ==
    /\ deploy.outcome = "raised"
    /\ Len(deploy.statements) = 3
    /\ deploy.executed = <<1, 2>>
    /\ deploy.applied = {1}

----------------------------------------------------------------------------
(* Properties of the application context *)

\* C25: after validation of a remote project reported the empty database or
\* deviations and the user resolved it by a successful deployment or by
\* proceed-anyway, app_context.gateway is not None (a proceed-anyway that
\* fails for another reason than the schema is left aside).
C25_ResolvedMeansGateway ==
    (\/ app.stage \in {"deployed", "proceeded"}
     \/ (/\ app.stage = "proceed_failed"
         /\ app.error \in {"SCHEMA_DEPLOYMENT_REQUIRED", "SCHEMA_DEVIATIONS_DETECTED"}))
    => app._gateway # "none"

----------------------------------------------------------------------------
(* Properties of the observer notifications *)

\* C26: with an observer installed, every call of execute, query_all,
\* query_one, health_check and every entry and exit of transaction() on
\* either adapter delivers at least one event before it returns or raises,
\* and the error_message of a failure event has at most 200 characters.
C26_EveryCallNotifies ==
    last.op \in {"execute", "query_all", "query_one", "health_check",
                 "tx_enter", "tx_exit", "tx_exit_exc"}
    => (last.events >= 1 /\ last.msglen <= 200)

----------------------------------------------------------------------------
(* Properties of close() *)

\* the connection the adapter object holds: _tx_conn (mssql), _conn (sqlite)
HoldsConnection == IF backend = "mssql" THEN tx_conn # 0 ELSE inited

\* a step that is a call of close(): it records itself in last (a close()
\* right after a close() of an adapter without connection changes no
\* variable and is a stuttering step)
IsClose == last'.op = "close" /\ last' # last

\* C27: close() on either adapter never raises, even when the driver's close
\* fails; after it the adapter holds no connection; a close() on an adapter
\* that holds no connection (a second close()) changes no state.
C27_Step ==
    IsClose =>
        /\ exc' = exc
        /\ last'.res = "ok"
        /\ ~HoldsConnection'
        /\ ~HoldsConnection =>
              UNCHANGED <<backend, inited, auth, tx_depth, tx_conn, conn, db, scopes, exc, nextId>>

C27_CloseNeverRaisesIdempotent == [][C27_Step]_vars

\* close() was called on an adapter whose connection refused to close: the
\* adapter holds no connection and no exception left the call
C27_Witness ==
    /\ last.op = "close" /\ last.res = "ok" /\ last.conn # 0
    /\ conn.hist # <<>> /\ conn.hist[Len(conn.hist)] = "close_failed"
    /\ ~HoldsConnection
    /\ exc = NoExc


----------------------------------------------------------------------------
\* a step that is a call of MssqlAdapter.health_check
IsMssqlHealthCheck == backend = "mssql" /\ last'.op = "health_check" /\ last' # last

\* the configured timeout in seconds; an unset or zero timeout_seconds is
\* the default of 30 seconds
Configured(l) == IF l.timeout_seconds = 0 THEN 30 ELSE l.timeout_seconds

C28_Step ==
    IsMssqlHealthCheck =>
        /\ last'.connects <= 1
        /\ (inited /\ auth # "azure_ad") =>
              /\ last'.connects = 1
              /\ last'.attempts = 1
              /\ last'.sleeps = <<>>
              /\ last'.probe_timeout = (IF Configured(last') < 10 THEN Configured(last') ELSE 10)
              /\ last'.probe_timeout <= last'.connect_timeout
        /\ (inited /\ auth = "azure_ad") =>
              /\ last'.connects = 0
              /\ last'.attempts = 0
              /\ last'.res = "ok"
              /\ exc' = exc

\* C28: a call of MssqlAdapter.health_check makes at most one connection
\* attempt: exactly one on an initialised adapter in a non-federated mode,
\* with no retry and no sleep even when the attempt fails with a
\* TransientError, and none for an azure_ad mode, where it returns without
\* an exception; the probe's connect timeout is min(10, configured timeout)
\* and is never above the timeout _connect uses for normal operations.
C28_HealthCheckOneAttempt == [][C28_Step]_vars

\* a health check in sql mode whose single attempt failed with a
\* TransientError, under a configured timeout above the probe's cap
C28_Witness ==
    /\ backend = "mssql" /\ inited /\ auth = "sql"
    /\ last.op = "health_check" /\ last.res = "TransientError"
    /\ last.connects = 1 /\ last.attempts = 1
    /\ last.timeout_seconds = 30 /\ last.probe_timeout = 10 /\ last.connect_timeout = 30
    /\ exc # NoExc


----------------------------------------------------------------------------
\* C29: for an auth_type that is missing or is none of the six supported
\* modes, the connection-descriptor builder fails with a validation error
\* and produces no connection string.
C29_UnsupportedAuthRejected ==
    (built.called /\ Lower(built.auth_type) \notin SupportedModes) =>
        /\ built.raised
        /\ built.conn_str = <<>>


----------------------------------------------------------------------------
\* the login-failure signals of a message
LoginSignals == {"Login failed", "FA004", "18456"}

\* C30: map_mssql_error returns AuthError for every error whose SQLSTATE is
\* '28000' or whose message contains 'Login failed', 'FA004' or '18456',
\* whatever its numeric code and whatever other phrases the message contains.
C30_AuthSignalsAlwaysAuth ==
    (mapped.called
       /\ (mapped.feat.sqlstate = "28000" \/ mapped.feat.phr \cap LoginSignals # {})) =>
        mapped.cls = "AuthError"

\* an error with a transient code and permission, not-found, busy and
\* timeout phrases next to one login-failure signal is classified AuthError
C30_Witness ==
    /\ mapped.called
    /\ mapped.feat.sqlstate = "none"
    /\ mapped.feat.code = 40501
    /\ mapped.feat.phr = {"18456", "permission", "does not exist", "service is busy", "timeout"}
    /\ mapped.cls = "AuthError"


----------------------------------------------------------------------------
\* the numeric codes of load shedding, failover and resource governance
TransientCodes == {40501, 40613, 40197, 49918, 49919, 49920}

\* C31: map_mssql_error returns TransientError for every error whose numeric
\* code is 40501, 40613, 40197 or in 49918..49920, whatever its message
\* text, unless the error carries an authentication signal.
C31_TransientCodesAlwaysTransient ==
    (mapped.called
       /\ mapped.feat.code \in TransientCodes
       /\ mapped.feat.sqlstate # "28000"
       /\ mapped.feat.phr \cap LoginSignals = {}) =>
        mapped.cls = "TransientError"


----------------------------------------------------------------------------
\* what get_password(path) returns in the current state ("none": None)
Returns(path) == get_password(_session_credentials, crypto, keyring, path).ret

\* C32: under every encryption backend and after any interleaving of
\* store_password, get_password and clear_password over several project
\* keys, get_password(p) returns the last non-empty password stored for p
\* since p was last cleared, or None if there is none; what is stored or
\* cleared for another key does not change it.
C32_GetReturnsLastStored ==
    \A path \in RemotePaths :
        /\ Returns(path) = stored[path]
        /\ ~get_password(_session_credentials, crypto, keyring, path).raised

\* C33: after AppContext.close() of a remote project, and after
\* cleanup_credentials(), the password cached for the project is destroyed:
\* has_password is false, get_password returns None and no store the cache
\* wrote to (the OS keyring included) still holds the password.
C33_ClosedProjectPasswordDestroyed ==
    /\ (ctxcall.op = "close" /\ ctxcall.path \in RemotePaths) =>
          /\ _session_credentials[ctxcall.path] = NoCipher
          /\ Returns(ctxcall.path) = "none"
          /\ keyring.owner # ctxcall.path
    /\ ctxcall.op = "cleanup_credentials" =>
          /\ \A path \in RemotePaths :
                _session_credentials[path] = NoCipher /\ Returns(path) = "none"
          /\ keyring = NoEntry


----------------------------------------------------------------------------
\* the last call was load_project of a remote project and it got as far as
\* validate_schema, which returned the result recorded
LoadValidated ==
    /\ ctxcall.op = "load_project"
    /\ ctxcall.path \in RemotePaths
    /\ result.returned

----------------------------------------------------------------------------
\* C35: after any call of load_project that returns normally,
\* get_pending_schema_validation() is None, also when an earlier
\* load_project on the same context had stored pending validation data.
C35_NormalLoadLeavesNoPending ==
    (ctxcall.op = "load_project" /\ ctxcall.raised = "none") =>
        ~app._pending_schema_validation

\* C36: handle_schema_deployment without pending validation raises
\* ValueError and calls no deploy_schema; with pending validation it calls
\* deploy_schema once and clears the pending data exactly when deploy_schema
\* returned: when it raised, the pending data is left and the error
\* propagates.
C36_DeployOnceClearOnSuccess ==
    ctxcall.op = "handle_schema_deployment" =>
        IF ~ctxcall.pending_before
        THEN /\ ctxcall.raised = "ValueError"
             /\ ctxcall.deploys = 0
             /\ ~app._pending_schema_validation
        ELSE /\ ctxcall.deploys = 1
             /\ ctxcall.raised \in {"none", "deploy_schema"}
             /\ app._pending_schema_validation <=> ctxcall.raised = "deploy_schema"

\* a deployment that raised: the pending data is still there
C36_Witness ==
    /\ ctxcall.op = "handle_schema_deployment"
    /\ ctxcall.pending_before
    /\ ctxcall.deploys = 1
    /\ ctxcall.raised = "deploy_schema"
    /\ app._pending_schema_validation


----------------------------------------------------------------------------
\* a run of run_migrations has ended and check_version had returned
MigDone == mig.pc = "idle" /\ mig.runs > 0 /\ mig.found # "none"

\* the adapter methods the run called, as a set
MigCalls == {mig.calls[i] : i \in 1..Len(mig.calls)}

----------------------------------------------------------------------------
\* C38: on the remote adapter, after any sequence of init, execute,
\* query_all, query_one, health_check, transaction enter and exit and
\* close() on one thread, close() inside an open transaction scope included,
\* _tx_depth is never negative, _tx_conn is set exactly when _tx_depth > 0,
\* and every connection opened for one statement outside a transaction has
\* been closed when the call ends.
C38_ConnectionAccounting ==
    backend = "mssql" =>
        /\ tx_depth >= 0
        /\ tx_conn # 0 <=> tx_depth > 0
        /\ (last.op \in Ops /\ last.conn = 0) =>
              \* no connection is closed that pyodbc.connect was not called
              \* for, and the connection of a statement that ran is closed
              /\ last.closes <= last.connects
              /\ last.res = "ok" => last.closes >= 1


----------------------------------------------------------------------------
\* the call before the last stored a password for the project the last call
\* loaded: the step from store_password(P, pw) to load_project(P)
StoreThenLoad ==
    /\ ctxcall.op = "store_password" /\ stored[ctxcall.path] # "none"
    /\ ctxcall'.op = "load_project" /\ ctxcall'.path = ctxcall.path

\* C39: a password stored for project P immediately before load_project(P)
\* is the password load_project reads from the credential cache and passes
\* to MssqlAdapter.init, whatever the context held before the call.
C39_StoredPasswordReachesInit ==
    [][StoreThenLoad => ctxcall'.password = stored[ctxcall.path]]_vars


----------------------------------------------------------------------------
\* C40: a connect-time driver failure is classified and retried alike on
\* the token-manager path (azure_ad modes) and on the direct path
\* (windows / sql): the same driver error yields the same taxonomy class and
\* the same number of attempts.
C40_ConnectPathsAgree ==
    mapped.compared => mapped.direct = mapped.token

====
